---- MODULE Spec2Model ----
(***************************************************************************)
(* Model of the hybrid tool-call resolution of generate_hybrid             *)
(* (src/demo_whatsapp_voice_stream.py, lines 544-776): schema validation   *)
(* and coercion, fingerprinting, self-consistency consensus, decomposition *)
(* and the single cloud fallback.                                          *)
(*                                                                         *)
(* Python strings are sequences of one-character strings, compared by code *)
(* point as Python compares them.  Python values are tagged records        *)
(*   [t, n, s, l]  with t in int | float | nan | inf | ninf | bool | str | *)
(*   list; n the number (bool: 0/1), s the characters of a str, l the      *)
(*   elements of a list.  Floats of the model are integral, nan or +-inf.  *)
(***************************************************************************)
EXTENDS Integers, Sequences, FiniteSets, TLC

VARIABLES
    v_calls,      \* _validate: the calls argument
    v_out,        \* _validate: the returned (corrected, is_valid), or NoResult
    v_pc,         \* _validate harness: "call" before, "done" after the call
    f_a,          \* _fingerprint: a first call list
    f_b,          \* _fingerprint: a second call list
    f_key_a,      \* _fingerprint(f_a), <<>> before the call
    f_key_b,      \* _fingerprint(f_b), <<>> before the call
    f_pc,         \* _fingerprint harness: "call" before, "done" after the calls
    messages,     \* generate_hybrid: the messages of the request
    pc,           \* generate_hybrid: the point the request has reached
    od,           \* locals of the running _on_device and
                  \* _self_consistent_with_first: msgs, first, valid_runs,
                  \* spent_time, the number k of extra samples drawn, and
                  \* as history the samples generate_cactus returned to it
    od_out,       \* (result_or_None, time) returned by the last _on_device
    frames,       \* the stack of _resolve invocations, innermost last
    res_out,      \* (calls_or_None, time) returned by the last _resolve
    top,          \* locals of generate_hybrid: spent_time, sub_contents, the
                  \* loop position i, all_calls, total_time, success
    result,       \* the result generate_hybrid returned, or NoHybridResult
    n_local,      \* history: generate_cactus calls made for the request
    local_ms,     \* history: sum of the latencies generate_cactus returned
    cloud_log,    \* history: the generate_cloud calls made, each with its
                  \* arguments and what it returned
    resolved_log, \* history: the contents _on_device resolved inside
                  \* _resolve, each with the calls returned for it
    d_message,    \* _decompose: the message it is called with
    d_parts,      \* what _decompose returned, <<>> before the call
    d_pc,         \* _decompose harness: "call" before, "done" after the call
    c_value,      \* _coerce: the value it is called with
    c_type,       \* _coerce: the expected_type it is called with
    c_out,        \* what _coerce returned, NoValue before the call
    c_pc,         \* _coerce harness: "call" before, "done" after the call
    now,          \* main: what time.time() returns, in seconds
    armed_until,  \* main: the time until which commands are accepted
    last_wake,    \* history: when the last transcript with a detected wake
                  \* word was handled, 0 before the first
    last_phrase,  \* history: when the last transcript that holds one of
                  \* WAKE_WORDS was handled, 0 before the first
    sent,         \* the transcript the last turn of the loop sent a
                  \* WhatsApp message for, NoSend if it sent none
    m_pc,         \* main: "listening" inside its loop
    cactus,       \* generate_cactus: its position, its locals model and
                  \* raw_str, the handles of the local model that are live
                  \* and, as history, what the calls made and returned
    stream,       \* main of the streaming demo: its loop and its job
    ring          \* AudioRingBuffer: its fields and the threads using it

validate_vars == <<v_calls, v_out, v_pc>>

fingerprint_vars == <<f_a, f_b, f_key_a, f_key_b, f_pc>>

hybrid_vars ==
    <<messages, pc, od, od_out, frames, res_out, top, result,
      n_local, local_ms, cloud_log, resolved_log>>

decompose_vars == <<d_message, d_parts, d_pc>>

coerce_vars == <<c_value, c_type, c_out, c_pc>>

listen_vars == <<now, armed_until, last_wake, last_phrase, sent, m_pc>>

cactus_vars == <<cactus>>

stream_vars == <<stream>>

ring_vars == <<ring>>

vars ==
    <<validate_vars, fingerprint_vars, hybrid_vars, decompose_vars,
      coerce_vars, listen_vars, cactus_vars, stream_vars, ring_vars>>

\* ------------------------------------------------------------------------
\* Characters and strings
\* ------------------------------------------------------------------------

Ord ==
    (" " :> 32) @@ ("'" :> 39) @@ ("+" :> 43) @@ ("," :> 44) @@ ("-" :> 45) @@
    ("." :> 46) @@
    ("0" :> 48) @@ ("1" :> 49) @@ ("2" :> 50) @@ ("3" :> 51) @@ ("4" :> 52) @@
    ("5" :> 53) @@ ("6" :> 54) @@ ("7" :> 55) @@ ("8" :> 56) @@ ("9" :> 57) @@
    (":" :> 58) @@
    ("A" :> 65) @@ ("B" :> 66) @@ ("C" :> 67) @@ ("D" :> 68) @@ ("E" :> 69) @@
    ("F" :> 70) @@ ("G" :> 71) @@ ("H" :> 72) @@ ("I" :> 73) @@ ("J" :> 74) @@
    ("K" :> 75) @@ ("L" :> 76) @@ ("M" :> 77) @@ ("N" :> 78) @@ ("O" :> 79) @@
    ("P" :> 80) @@ ("Q" :> 81) @@ ("R" :> 82) @@ ("S" :> 83) @@ ("T" :> 84) @@
    ("U" :> 85) @@ ("V" :> 86) @@ ("W" :> 87) @@ ("X" :> 88) @@ ("Y" :> 89) @@
    ("Z" :> 90) @@
    ("[" :> 91) @@ ("]" :> 93) @@ ("_" :> 95) @@
    ("a" :> 97) @@ ("b" :> 98) @@ ("c" :> 99) @@ ("d" :> 100) @@ ("e" :> 101) @@
    ("f" :> 102) @@ ("g" :> 103) @@ ("h" :> 104) @@ ("i" :> 105) @@
    ("j" :> 106) @@ ("k" :> 107) @@ ("l" :> 108) @@ ("m" :> 109) @@
    ("n" :> 110) @@ ("o" :> 111) @@ ("p" :> 112) @@ ("q" :> 113) @@
    ("r" :> 114) @@ ("s" :> 115) @@ ("t" :> 116) @@ ("u" :> 117) @@
    ("v" :> 118) @@ ("w" :> 119) @@ ("x" :> 120) @@ ("y" :> 121) @@
    ("z" :> 122)

Digits == <<"0", "1", "2", "3", "4", "5", "6", "7", "8", "9">>

IsDigit(c) == \E d \in 1..10 : Digits[d] = c

DigitVal(c) == (CHOOSE d \in 1..10 : Digits[d] = c) - 1

IsSpace(c) == c = " "

Chr(code) == CHOOSE c \in DOMAIN Ord : Ord[c] = code

IsUpperCode(code) == code >= 65 /\ code <= 90

\* str.lower() on one character
LowerChar(c) == IF IsUpperCode(Ord[c]) THEN Chr(Ord[c] + 32) ELSE c

Lower(s) == [i \in 1..Len(s) |-> LowerChar(s[i])]

RECURSIVE LStrip(_)
LStrip(s) == IF s # <<>> /\ IsSpace(Head(s)) THEN LStrip(Tail(s)) ELSE s

RECURSIVE RStrip(_)
RStrip(s) ==
    IF s # <<>> /\ IsSpace(s[Len(s)]) THEN RStrip(SubSeq(s, 1, Len(s) - 1)) ELSE s

\* str.strip()
Strip(s) == RStrip(LStrip(s))

\* Python's < on two code points, and on str: lexicographic by code point, a
\* proper prefix is smaller
CodeLess(x, y, a, b, rest) == IF x # y THEN x < y ELSE rest

RECURSIVE StrLess(_, _)
StrLess(a, b) ==
    IF b = <<>> THEN FALSE
    ELSE IF a = <<>> THEN TRUE
    ELSE CodeLess(Ord[Head(a)], Ord[Head(b)], a, b, StrLess(Tail(a), Tail(b)))

\* str(n) for a natural number
RECURSIVE NatToStr(_)
NatToStr(n) ==
    IF n < 10 THEN <<Digits[n + 1]>>
    ELSE NatToStr(n \div 10) \o <<Digits[(n % 10) + 1]>>

\* str(n) for an int
IntToStr(n) == IF n < 0 THEN <<"-">> \o NatToStr(0 - n) ELSE NatToStr(n)

IsDigits(s) == s # <<>> /\ \A i \in 1..Len(s) : IsDigit(s[i])

RECURSIVE DigitsVal(_)
DigitsVal(s) ==
    IF s = <<>> THEN 0
    ELSE 10 * DigitsVal(SubSeq(s, 1, Len(s) - 1)) + DigitVal(s[Len(s)])

\* ------------------------------------------------------------------------
\* Python values
\* ------------------------------------------------------------------------

IntV(k)   == [t |-> "int",   n |-> k, s |-> <<>>, l |-> <<>>]
FloatV(k) == [t |-> "float", n |-> k, s |-> <<>>, l |-> <<>>]
NanV      == [t |-> "nan",   n |-> 0, s |-> <<>>, l |-> <<>>]
InfV      == [t |-> "inf",   n |-> 0, s |-> <<>>, l |-> <<>>]
NegInfV   == [t |-> "ninf",  n |-> 0, s |-> <<>>, l |-> <<>>]
BoolV(b)  == [t |-> "bool",  n |-> IF b THEN 1 ELSE 0, s |-> <<>>, l |-> <<>>]
StrV(cs)  == [t |-> "str",   n |-> 0, s |-> cs, l |-> <<>>]
ListV(es) == [t |-> "list",  n |-> 0, s |-> <<>>, l |-> es]

\* no value: the harness of _coerce before the call
NoValue   == [t |-> "none",  n |-> 0, s |-> <<>>, l |-> <<>>]

\* isinstance(v, float)
IsFloat(v) == v.t \in {"float", "nan", "inf", "ninf"}

\* isinstance(v, int): bool is a subclass of int
IsIntInstance(v) == v.t \in {"int", "bool"}

\* a leading sign of a numeral, the numeral without it, and its factor
HasSign(b) == b # <<>> /\ Head(b) \in {"+", "-"}

Unsigned(b) == IF HasSign(b) THEN Tail(b) ELSE b

SignOf(b) == IF b # <<>> /\ Head(b) = "-" THEN -1 ELSE 1

Parsed(ok, n) == [ok |-> ok, n |-> IF ok THEN n ELSE 0]

\* int(s) of a str: surrounding whitespace, an optional sign, decimal digits
\* (the strings of the model hold no underscores and no non-ASCII digits)
ParseInt(s) ==
    Parsed(IsDigits(Unsigned(Strip(s))),
           SignOf(Strip(s)) * DigitsVal(Unsigned(Strip(s))))

\* the index of the first "." of body, Len(body) + 1 if it has none
RECURSIVE FirstDot(_, _)
FirstDot(body, i) ==
    IF i > Len(body) \/ body[i] = "." THEN i ELSE FirstDot(body, i + 1)

IntPart(body) == SubSeq(body, 1, FirstDot(body, 1) - 1)

FracPart(body) == SubSeq(body, FirstDot(body, 1) + 1, Len(body))

AllZeros(s) == \A i \in 1..Len(s) : s[i] = "0"

\* digits, digits. , digits.zeros or .zeros
IsDecimal(ip, fp) == (IsDigits(ip) \/ (ip = <<>> /\ fp # <<>>)) /\ AllZeros(fp)

ParsedFloat(ok, v) == [ok |-> ok, v |-> IF ok THEN v ELSE NanV]

ParseFloatBody(body, sign) ==
    IF body = <<"n", "a", "n">> THEN ParsedFloat(TRUE, NanV)
    ELSE IF body = <<"i", "n", "f">>
            \/ body = <<"i", "n", "f", "i", "n", "i", "t", "y">>
    THEN ParsedFloat(TRUE, IF sign < 0 THEN NegInfV ELSE InfV)
    ELSE ParsedFloat(IsDecimal(IntPart(body), FracPart(body)),
                     FloatV(sign * DigitsVal(IntPart(body))))

\* float(s) of a str: whitespace, optional sign, then digits, digits.zeros,
\* "nan", "inf" or "infinity" in any case (the strings of the model hold no
\* exponent and no non-zero fraction)
ParseFloat(s) == ParseFloatBody(Lower(Unsigned(Strip(s))), SignOf(Strip(s)))

\* repr(v) and str(v); they differ only on str (repr quotes it; the strings
\* of the model hold no quote, backslash or control character)
RECURSIVE Repr(_)
RECURSIVE JoinRepr(_)
JoinRepr(es) ==
    IF es = <<>> THEN <<>>
    ELSE IF Len(es) = 1 THEN Repr(es[1])
    ELSE Repr(es[1]) \o <<",", " ">> \o JoinRepr(Tail(es))

Repr(v) ==
    CASE v.t = "int"   -> IntToStr(v.n)
      [] v.t = "float" -> IntToStr(v.n) \o <<".", "0">>
      [] v.t = "nan"   -> <<"n", "a", "n">>
      [] v.t = "inf"   -> <<"i", "n", "f">>
      [] v.t = "ninf"  -> <<"-", "i", "n", "f">>
      [] v.t = "bool"  -> IF v.n = 1 THEN <<"T", "r", "u", "e">>
                          ELSE <<"F", "a", "l", "s", "e">>
      [] v.t = "str"   -> <<"'">> \o v.s \o <<"'">>
      [] v.t = "list"  -> <<"[">> \o JoinRepr(v.l) \o <<"]">>

Str(v) == IF v.t = "str" THEN v.s ELSE Repr(v)

\* every value counts as true
Truthy_always(v) == TRUE

\* bool(v): truthiness
Truthy(v) ==
    CASE v.t \in {"int", "float", "bool"} -> v.n # 0
      [] v.t \in {"nan", "inf", "ninf"}   -> TRUE
      [] v.t = "str"                      -> v.s # <<>>
      [] v.t = "list"                     -> v.l # <<>>

\* json.loads(s) restricted to what _coerce asks of it: does s parse, and if
\* it parses to a list, which list.  Handles "[]" and "[d, d, ...]" with
\* integer elements; any other JSON document of the model is not a list.
ParsedList(ok, l) == [ok |-> ok, l |-> IF ok THEN l ELSE <<>>]

\* a JSON integer: an optional "-", digits, no leading zero
IsJsonInt(b) ==
    /\ b # <<>>
    /\ Head(b) # "+"
    /\ IsDigits(Unsigned(b))
    /\ (Len(Unsigned(b)) = 1 \/ Head(Unsigned(b)) # "0")

\* the index of the first "," of b from i on, Len(b) + 1 if there is none
RECURSIVE FirstComma(_, _)
FirstComma(b, i) ==
    IF i > Len(b) \/ b[i] = "," THEN i ELSE FirstComma(b, i + 1)

JoinParsed(hd, rest) == ParsedList(hd.ok /\ rest.ok, hd.l \o rest.l)

\* the elements between the brackets, separated by "," and spaces
RECURSIVE JsonInts(_)
JsonInts(s) ==
    IF FirstComma(s, 1) > Len(s)
    THEN ParsedList(IsJsonInt(Strip(s)), <<IntV(ParseInt(s).n)>>)
    ELSE JoinParsed(JsonInts(SubSeq(s, 1, FirstComma(s, 1) - 1)),
                    JsonInts(SubSeq(s, FirstComma(s, 1) + 1, Len(s))))

Bracketed(b) == Len(b) >= 2 /\ Head(b) = "[" /\ b[Len(b)] = "]"

JsonLoadsInner(inner) ==
    IF inner = <<>> THEN ParsedList(TRUE, <<>>) ELSE JsonInts(inner)

JsonLoadsStripped(b) ==
    IF Bracketed(b) THEN JsonLoadsInner(Strip(SubSeq(b, 2, Len(b) - 1)))
    ELSE ParsedList(FALSE, <<>>)

JsonLoadsList(s) == JsonLoadsStripped(Strip(s))

\* ------------------------------------------------------------------------
\* _coerce
\* ------------------------------------------------------------------------

\* try: return <parsed> / except (ValueError, TypeError): return value
IntOrUnchanged(p, value) == IF p.ok THEN IntV(p.n) ELSE value

FloatOrUnchanged(p, value) == IF p.ok THEN p.v ELSE value

\* a value json.loads does not take as a list is returned as it is
ListOrWrapped_unchanged(p, value) == IF p.ok THEN ListV(p.l) ELSE value

\* return parsed if isinstance(parsed, list) else [value] / except: [value]
ListOrWrapped(p, value) == IF p.ok THEN ListV(p.l) ELSE ListV(<<value>>)

_coerce(value, expected_type) ==
    CASE expected_type = "integer" ->
            IF value.t = "int" THEN value
            ELSE IntOrUnchanged(ParseInt(Str(value)), value)
      [] expected_type = "number" ->
            IF value.t = "int" \/ IsFloat(value) THEN value
            ELSE FloatOrUnchanged(ParseFloat(Str(value)), value)
      [] expected_type = "boolean" ->
            IF value.t = "bool" THEN value
            ELSE IF value.t = "str"
            THEN BoolV(Lower(value.s) \in
                       {<<"t", "r", "u", "e">>, <<"y", "e", "s">>, <<"1">>})
            ELSE BoolV(Truthy(value))
      [] expected_type = "string" ->
            IF value.t = "str" THEN value ELSE StrV(Str(value))
      [] expected_type = "array" ->
            IF value.t = "list" THEN value
            ELSE IF value.t = "str" THEN ListOrWrapped(JsonLoadsList(value.s), value)
            ELSE ListV(<<value>>)
      [] OTHER -> value

\* ------------------------------------------------------------------------
\* Tool specs and calls
\* ------------------------------------------------------------------------

\* A call {"name": ..., "arguments": {...}}; arguments is the dict as the
\* sequence of its (key, value) items in insertion order, keys distinct.
Call(name, arguments) == [name |-> name, arguments |-> arguments]

\* A tool spec: properties as (key, type) items, required as a list of keys
Tool(name, properties, required) ==
    [name |-> name, properties |-> properties, required |-> required]

\* k in d, and d[k], of a dict given as its items
HasKey(items, k) == \E i \in 1..Len(items) : items[i][1] = k

Lookup(items, k) == items[CHOOSE i \in 1..Len(items) : items[i][1] = k][2]

\* tool_map = {t["name"]: t for t in tool_list}: a later tool of the same
\* name replaces an earlier one
InToolMap(tool_list, name) == \E i \in 1..Len(tool_list) : tool_list[i].name = name

ToolMapGet(tool_list, name) ==
    tool_list[CHOOSE i \in 1..Len(tool_list) :
                /\ tool_list[i].name = name
                /\ \A j \in 1..Len(tool_list) : tool_list[j].name = name => j <= i]

\* ------------------------------------------------------------------------
\* _validate
\* ------------------------------------------------------------------------

RangeLow == -1000

RangeHigh == 1000000

\* the range test with both bounds excluded
OutOfRange_exclusive(coerced) ==
    CASE coerced.t \in {"int", "float", "bool"} ->
            coerced.n <= RangeLow \/ coerced.n >= RangeHigh
      [] coerced.t = "nan"  -> FALSE
      [] coerced.t = "inf"  -> TRUE
      [] coerced.t = "ninf" -> TRUE

\* coerced < -1000 or coerced > 1_000_000, for an int, bool or float; every
\* comparison with nan is false
OutOfRange(coerced) ==
    CASE coerced.t \in {"int", "float", "bool"} ->
            coerced.n < RangeLow \/ coerced.n > RangeHigh
      [] coerced.t = "nan"  -> FALSE
      [] coerced.t = "inf"  -> TRUE
      [] coerced.t = "ninf" -> TRUE

\* a rejected list is returned as far as it was corrected: not at all
Failed_nothing(calls) == [corrected |-> <<>>, is_valid |-> FALSE]

Failed(calls) == [corrected |-> calls, is_valid |-> FALSE]

\* one item of the corrected arguments: the range test on the coerced value,
\* then corrected_args[k] = coerced
CheckCoerced(k, type, coerced, rest) ==
    IF /\ type \in {"integer", "number"}
       /\ (IsIntInstance(coerced) \/ IsFloat(coerced))
       /\ OutOfRange(coerced)
    THEN [ok |-> FALSE, args |-> <<>>]
    ELSE [ok |-> rest.ok, args |-> <<<<k, coerced>>>> \o rest.args]

\* an argument the schema does not declare is stored as its repr()
PassThrough_as_repr(item, rest) ==
    [ok |-> rest.ok, args |-> << <<item[1], StrV(Repr(item[2]))>> >> \o rest.args]

\* corrected_args[k] = v for an argument the schema does not declare
PassThrough(item, rest) == [ok |-> rest.ok, args |-> <<item>> \o rest.args]

\* the loop over args.items(): the corrected items, or failure on the first
\* out-of-range number
RECURSIVE CorrectArgs(_, _)
CorrectArgs(args, props) ==
    IF args = <<>> THEN [ok |-> TRUE, args |-> <<>>]
    ELSE IF HasKey(props, Head(args)[1])
    THEN CheckCoerced(Head(args)[1], Lookup(props, Head(args)[1]),
                      _coerce(Head(args)[2], Lookup(props, Head(args)[1])),
                      CorrectArgs(Tail(args), props))
    ELSE PassThrough(Head(args), CorrectArgs(Tail(args), props))

MissingRequired(args, required) ==
    \E f \in 1..Len(required) : ~HasKey(args, required[f])

CorrectedCall(name, ca) == [ok |-> ca.ok, call |-> Call(name, ca.args)]

CorrectCallWith(call, schema) ==
    IF MissingRequired(call.arguments, schema.required)
    THEN [ok |-> FALSE, call |-> call]
    ELSE CorrectedCall(call.name, CorrectArgs(call.arguments, schema.properties))

\* one iteration of the loop over calls: the corrected call, or failure
CorrectCall(call, tool_list) ==
    IF ~InToolMap(tool_list, call.name) THEN [ok |-> FALSE, call |-> call]
    ELSE CorrectCallWith(call, ToolMapGet(tool_list, call.name))

\* the loop over calls, from the call at index i on
RECURSIVE ValidateFrom(_, _, _, _)
RECURSIVE ValidateStep(_, _, _, _, _)
ValidateStep(calls, tool_list, i, corrected, cc) ==
    IF ~cc.ok THEN Failed(calls)
    ELSE ValidateFrom(calls, tool_list, i + 1, Append(corrected, cc.call))

ValidateFrom(calls, tool_list, i, corrected) ==
    IF i > Len(calls) THEN [corrected |-> corrected, is_valid |-> TRUE]
    ELSE ValidateStep(calls, tool_list, i, corrected,
                      CorrectCall(calls[i], tool_list))

\* _validate without its "if not calls" guard
_validate_no_empty_guard(calls, tool_list) == ValidateFrom(calls, tool_list, 1, <<>>)

_validate(calls, tool_list) ==
    IF calls = <<>> THEN Failed(calls) ELSE ValidateFrom(calls, tool_list, 1, <<>>)

\* ------------------------------------------------------------------------
\* _fingerprint
\* ------------------------------------------------------------------------

\* Python's < on the tuples (k, str(v))
PairLess(p, q) == StrLess(p[1], q[1]) \/ (p[1] = q[1] /\ StrLess(p[2], q[2]))

\* Python's < on tuples of such pairs: lexicographic, a proper prefix smaller
RECURSIVE PairsLess(_, _)
PairsLess(a, b) ==
    IF b = <<>> THEN FALSE
    ELSE IF a = <<>> THEN TRUE
    ELSE IF Head(a) # Head(b) THEN PairLess(Head(a), Head(b))
    ELSE PairsLess(Tail(a), Tail(b))

\* Python's < on the tuples (name, argument pairs)
KeyLess(x, y) == StrLess(x[1], y[1]) \/ (x[1] = y[1] /\ PairsLess(x[2], y[2]))

\* sorted(...) of (k, str(v)) pairs: stable insertion from the left
RECURSIVE InsertPair(_, _)
InsertPair(p, sorted) ==
    IF sorted = <<>> THEN <<p>>
    ELSE IF PairLess(p, Head(sorted)) THEN <<p>> \o sorted
    ELSE <<Head(sorted)>> \o InsertPair(p, Tail(sorted))

RECURSIVE SortPairs(_)
SortPairs(ps) ==
    IF ps = <<>> THEN <<>>
    ELSE InsertPair(ps[Len(ps)], SortPairs(SubSeq(ps, 1, Len(ps) - 1)))

\* sorted(...) of the (name, argument pairs) tuples
RECURSIVE InsertKey(_, _)
InsertKey(x, sorted) ==
    IF sorted = <<>> THEN <<x>>
    ELSE IF KeyLess(x, Head(sorted)) THEN <<x>> \o sorted
    ELSE <<Head(sorted)>> \o InsertKey(x, Tail(sorted))

RECURSIVE SortKeys(_)
SortKeys(xs) ==
    IF xs = <<>> THEN <<>>
    ELSE InsertKey(xs[Len(xs)], SortKeys(SubSeq(xs, 1, Len(xs) - 1)))

\* (k, str(v)) for k, v in c["arguments"].items()
StrItems(arguments) ==
    [i \in 1..Len(arguments) |-> <<arguments[i][1], Str(arguments[i][2])>>]

\* (c["name"], tuple(sorted(...))) for c in calls
CallKeys(calls) ==
    [i \in 1..Len(calls) |->
        <<calls[i].name, SortPairs(StrItems(calls[i].arguments))>>]

\* the fingerprint with the calls left in list order
_fingerprint_unsorted(calls) == CallKeys(calls)

\* the fingerprint with repeated calls counted once
RECURSIVE Dedup(_)
Dedup(xs) ==
    IF xs = <<>> THEN <<>>
    ELSE IF \E i \in 2..Len(xs) : xs[i] = Head(xs) THEN Dedup(Tail(xs))
    ELSE <<Head(xs)>> \o Dedup(Tail(xs))

_fingerprint_set(calls) == SortKeys(Dedup(CallKeys(calls)))

_fingerprint(calls) == SortKeys(CallKeys(calls))

\* ------------------------------------------------------------------------
\* _decompose
\* ------------------------------------------------------------------------

_VERBS ==
    { <<"s", "e", "t">>,
      <<"s", "e", "n", "d">>,
      <<"p", "l", "a", "y">>,
      <<"g", "e", "t">>,
      <<"f", "i", "n", "d">>,
      <<"s", "e", "a", "r", "c", "h">>,
      <<"l", "o", "o", "k">>,
      <<"c", "h", "e", "c", "k">>,
      <<"c", "r", "e", "a", "t", "e">>,
      <<"m", "a", "k", "e">>,
      <<"a", "d", "d">>,
      <<"c", "a", "l", "l">>,
      <<"t", "e", "x", "t">>,
      <<"r", "e", "m", "i", "n", "d">>,
      <<"s", "h", "o", "w">>,
      <<"t", "u", "r", "n">>,
      <<"o", "p", "e", "n">>,
      <<"c", "l", "o", "s", "e">>,
      <<"s", "t", "a", "r", "t">>,
      <<"s", "t", "o", "p">>,
      <<"e", "n", "a", "b", "l", "e">>,
      <<"d", "i", "s", "a", "b", "l", "e">>,
      <<"r", "u", "n">>,
      <<"s", "c", "h", "e", "d", "u", "l", "e">>,
      <<"b", "o", "o", "k">>,
      <<"c", "a", "n", "c", "e", "l">>,
      <<"d", "e", "l", "e", "t", "e">>,
      <<"u", "p", "d", "a", "t", "e">>,
      <<"r", "e", "a", "d">>,
      <<"w", "a", "k", "e">>,
      <<"f", "e", "t", "c", "h">>,
      <<"l", "i", "s", "t">>,
      <<"t", "e", "l", "l">>,
      <<"a", "s", "k">>,
      <<"g", "o">> }

\* the literal lit stands in s at index i
LitAt(s, i, lit) == i + Len(lit) - 1 <= Len(s) /\ SubSeq(s, i, i + Len(lit) - 1) = lit

\* the literal stands in s at index i in any case (?i)
LitAtAnyCase(s, i, lit) ==
    i + Len(lit) - 1 <= Len(s) /\ Lower(SubSeq(s, i, i + Len(lit) - 1)) = lit

SpaceAt(s, i) == i <= Len(s) /\ IsSpace(s[i])

\* \s+ from index i on: the index after the run of whitespace
RECURSIVE SpaceRunEnd(_, _)
SpaceRunEnd(s, i) == IF SpaceAt(s, i) THEN SpaceRunEnd(s, i + 1) ELSE i

and == <<"a", "n", "d">>

\* and\s+ at index j: the index after it, or 0
AndSpacesEnd(s, j) ==
    IF LitAt(s, j, and) /\ SpaceAt(s, j + 3) THEN SpaceRunEnd(s, j + 3) ELSE 0

AndSpacesEndAnyCase(s, j) ==
    IF LitAtAnyCase(s, j, and) /\ SpaceAt(s, j + 3) THEN SpaceRunEnd(s, j + 3) ELSE 0

OrElse(e, otherwise) == IF e # 0 THEN e ELSE otherwise

\* ,\s+and\s+|,\s+ at index i: the index after the match, or 0 for no match
CommaMatchEnd(s, i) ==
    IF s[i] = "," /\ SpaceAt(s, i + 1)
    THEN OrElse(AndSpacesEnd(s, SpaceRunEnd(s, i + 1)), SpaceRunEnd(s, i + 1))
    ELSE 0

\* \s+and\s+ (re.IGNORECASE) at index i: the index after the match, or 0
AndMatchEnd(s, i) ==
    IF SpaceAt(s, i) THEN AndSpacesEndAnyCase(s, SpaceRunEnd(s, i)) ELSE 0

\* re.split(r',\s+and\s+|,\s+', s): scan from index i, the current piece
\* starting at index start
RECURSIVE SplitComma(_, _, _)
SplitComma(s, i, start) ==
    IF i > Len(s) THEN <<SubSeq(s, start, Len(s))>>
    ELSE IF CommaMatchEnd(s, i) # 0
    THEN <<SubSeq(s, start, i - 1)>>
         \o SplitComma(s, CommaMatchEnd(s, i), CommaMatchEnd(s, i))
    ELSE SplitComma(s, i + 1, start)

\* re.split(r'\s+and\s+', s, flags=re.IGNORECASE)
RECURSIVE SplitAnd(_, _, _)
SplitAnd(s, i, start) ==
    IF i > Len(s) THEN <<SubSeq(s, start, Len(s))>>
    ELSE IF AndMatchEnd(s, i) # 0
    THEN <<SubSeq(s, start, i - 1)>>
         \o SplitAnd(s, AndMatchEnd(s, i), AndMatchEnd(s, i))
    ELSE SplitAnd(s, i + 1, start)

\* re.sub(r'(?i)^and\s+', '', p)
DropLeadingAnd(p) ==
    IF AndSpacesEndAnyCase(p, 1) # 0
    THEN SubSeq(p, AndSpacesEndAnyCase(p, 1), Len(p))
    ELSE p

\* the leading "and" is left on the clauses
RECURSIVE CleanParts_keep_and(_)
CleanParts_keep_and(parts) ==
    IF parts = <<>> THEN <<>>
    ELSE IF Strip(Head(parts)) # <<>>
    THEN <<Strip(Head(parts))>> \o CleanParts_keep_and(Tail(parts))
    ELSE CleanParts_keep_and(Tail(parts))

\* [f(p) for p in parts if keep(p)] for the three comprehensions
RECURSIVE CleanParts(_)
CleanParts(parts) ==
    IF parts = <<>> THEN <<>>
    ELSE IF Strip(Head(parts)) # <<>>
    THEN <<Strip(DropLeadingAnd(Head(parts)))>> \o CleanParts(Tail(parts))
    ELSE CleanParts(Tail(parts))

StripAll(parts) == [i \in 1..Len(parts) |-> Strip(parts[i])]

\* p.split(): the words of p, split at runs of whitespace
RECURSIVE WordEnd(_, _)
WordEnd(s, i) == IF i > Len(s) \/ IsSpace(s[i]) THEN i ELSE WordEnd(s, i + 1)

RECURSIVE Words(_, _)
Words(s, i) ==
    IF SpaceRunEnd(s, i) > Len(s) THEN <<>>
    ELSE <<SubSeq(s, SpaceRunEnd(s, i), WordEnd(s, SpaceRunEnd(s, i)) - 1)>>
         \o Words(s, WordEnd(s, SpaceRunEnd(s, i)))

\* w.rstrip("'s"): drop every trailing "'" and "s"
RECURSIVE RStripPossessive(_)
RStripPossessive(w) ==
    IF w # <<>> /\ w[Len(w)] \in {"'", "s"}
    THEN RStripPossessive(SubSeq(w, 1, Len(w) - 1))
    ELSE w

\* p.split()[0].lower().rstrip("'s") in _VERBS
StartsWithVerb(p) == RStripPossessive(Lower(Words(p, 1)[1])) \in _VERBS

\* the secondary split is taken
AcceptCandidates(candidates) ==
    /\ Len(candidates) > 1
    /\ \A i \in 1..Len(candidates) : Len(Words(candidates[i], 1)) >= 3
    /\ \A i \in 1..Len(candidates) : StartsWithVerb(candidates[i])

SecondarySplit(parts, candidates) ==
    IF Len(parts) = 1 /\ AcceptCandidates(candidates) THEN candidates ELSE parts

RECURSIVE AtLeastTwoWords(_)
AtLeastTwoWords(parts) ==
    IF parts = <<>> THEN <<>>
    ELSE IF Len(Words(Head(parts), 1)) >= 2
    THEN <<Head(parts)>> \o AtLeastTwoWords(Tail(parts))
    ELSE AtLeastTwoWords(Tail(parts))

\* the clauses that are left are returned even when there is only one
PartsOrWhole_any_left(parts, message) ==
    IF Len(parts) > 0 THEN parts ELSE <<message>>

PartsOrWhole(parts, message) == IF Len(parts) > 1 THEN parts ELSE <<message>>

_decompose(message) ==
    PartsOrWhole(
        AtLeastTwoWords(
            SecondarySplit(CleanParts(SplitComma(message, 1, 1)),
                           StripAll(SplitAnd(message, 1, 1)))),
        message)

\* ------------------------------------------------------------------------
\* The request's tools and the calls a local inference may produce
\* ------------------------------------------------------------------------

set_alarm  == <<"s", "e", "t", "_", "a", "l", "a", "r", "m">>
set_timer  == <<"s", "e", "t", "_", "t", "i", "m", "e", "r">>
get_stocks == <<"g", "e", "t", "_", "s", "t", "o", "c", "k", "s">>

hour  == <<"h", "o", "u", "r">>
label == <<"l", "a", "b", "e", "l">>
secs  == <<"s", "e", "c", "s">>
loop  == <<"l", "o", "o", "p">>
tags  == <<"t", "a", "g", "s">>
extra == <<"e", "x", "t", "r", "a">>

\* tools of the request: set_alarm(hour: integer, label: string) requires
\* hour; set_timer(secs: number, loop: boolean, tags: array) requires nothing.
\* get_stocks is not declared.
tools ==
    << Tool(set_alarm, << <<hour, "integer">>, <<label, "string">> >>, <<hour>>),
       Tool(set_timer, << <<secs, "number">>, <<loop, "boolean">>,
                          <<tags, "array">> >>, <<>>) >>

\* raw values a model may emit for a numeric parameter
NumericRaw ==
    { IntV(5), IntV(RangeLow), IntV(RangeLow - 1), IntV(RangeHigh),
      IntV(RangeHigh + 1), FloatV(5), FloatV(RangeHigh + 1), NanV, InfV,
      BoolV(TRUE),
      StrV(<<"5">>), StrV(<<" ", "7", " ">>), StrV(<<"-", "1", "0", "0", "1">>),
      StrV(<<"1", "0", "0", "0", "0", "0", "1">>), StrV(<<"5", ".", "0">>),
      StrV(<<"n", "a", "n">>), StrV(<<"a", "b", "c">>), StrV(<<>>) }

\* raw values for a boolean or array parameter
OtherRaw ==
    { BoolV(FALSE), IntV(0), StrV(<<"Y", "E", "S">>), StrV(<<"n", "o">>),
      StrV(<<"[", "1", ",", " ", "2", "]">>), ListV(<<IntV(1)>>) }

CallUniverse ==
    {Call(set_alarm, << <<hour, v>> >>) : v \in NumericRaw}
    \cup {Call(set_timer, << <<secs, v>> >>) : v \in NumericRaw}
    \cup {Call(set_timer, << <<loop, v>> >>) : v \in OtherRaw}
    \cup {Call(set_timer, << <<tags, v>> >>) : v \in OtherRaw}
    \cup { Call(set_alarm, <<>>),
           Call(set_alarm, << <<label, StrV(<<"u", "p">>)>> >>),
           Call(set_alarm, << <<hour, IntV(5)>>, <<label, IntV(1)>> >>),
           Call(set_alarm, << <<label, IntV(1)>>, <<hour, IntV(5)>> >>),
           Call(set_alarm, << <<hour, StrV(<<"5">>)>>,
                              <<extra, IntV(RangeHigh + 1)>> >>),
           Call(set_timer, <<>>),
           Call(get_stocks, << <<hour, IntV(5)>> >>) }

\* longest call list handed to _validate
MaxCalls == 2

RECURSIVE SeqsUpTo(_, _)
SeqsUpTo(S, n) ==
    IF n = 0 THEN {<<>>}
    ELSE LET shorter == SeqsUpTo(S, n - 1)
         IN  shorter \cup {Append(q, x) : q \in shorter, x \in S}

Returned(r) == [corrected |-> r.corrected, is_valid |-> r.is_valid, returned |-> TRUE]

NoResult == [corrected |-> <<>>, is_valid |-> FALSE, returned |-> FALSE]

\* ------------------------------------------------------------------------
\* The variables of a specification that is not running, at rest
\* ------------------------------------------------------------------------

FingerprintIdle ==
    /\ f_a = <<>>
    /\ f_b = <<>>
    /\ f_key_a = <<>>
    /\ f_key_b = <<>>
    /\ f_pc = "idle"

ValidateIdle ==
    /\ v_calls = <<>>
    /\ v_out = NoResult
    /\ v_pc = "idle"

DecomposeIdle ==
    /\ d_message = <<>>
    /\ d_parts = <<>>
    /\ d_pc = "idle"

CoerceIdle ==
    /\ c_value = NoValue
    /\ c_type = ""
    /\ c_out = NoValue
    /\ c_pc = "idle"

\* no message sent yet
NoSend == [is_none |-> TRUE, heard_wake |-> FALSE, wake_phrase |-> FALSE]

ListenIdle ==
    /\ now = 0
    /\ armed_until = 0
    /\ last_wake = 0
    /\ last_phrase = 0
    /\ sent = NoSend
    /\ m_pc = "idle"

\* generate_cactus is not running and has not been called
NoCactus ==
    [pc |-> "idle", model |-> 0, live |-> {}, acquired |-> 0, released |-> 0,
     calls |-> 0,
     raw_str |-> [json |-> FALSE, object |-> FALSE, function_calls |-> <<>>,
                  total_time_ms |-> 0, confidence |-> 0],
     out |-> [raised |-> FALSE, function_calls |-> <<>>, total_time_ms |-> 0,
              confidence |-> 0]]

CactusIdle == cactus = NoCactus

\* main of the streaming demo is not running
NoStream ==
    [pc |-> "idle", pending |-> 0, done |-> {}, handled |-> {},
     last_tick |-> "none", ticks |-> 0]

StreamIdle == stream = NoStream

\* no AudioRingBuffer has been made
NoRing ==
    [buf |-> <<>>, n_frames |-> 0, lock |-> "none", pushed |-> 0,
     pushes |-> 0, p_pc |-> "idle", mono |-> <<>>, old |-> <<>>,
     s_pc |-> "idle", need |-> 0, parts |-> <<>>, data |-> <<>>, out |-> <<>>]

RingIdle == ring = NoRing

\* ------------------------------------------------------------------------
\* generate_cactus, generate_cloud and the requests of generate_hybrid
\* ------------------------------------------------------------------------

N_SAMPLES == 3

\* confidences are hundredths: 0.99 is 99
confidence_threshold == 99

max_depth == 2

Max(a, b) == IF a >= b THEN a ELSE b

\* what cactus_complete returned: raw_str parses as JSON or does not, and
\* what it parses to is a JSON object or is not
RawOutput(calls, confidence, ms) ==
    [json |-> TRUE, object |-> TRUE, function_calls |-> calls,
     total_time_ms |-> ms, confidence |-> confidence]

Unparsable ==
    [json |-> FALSE, object |-> FALSE, function_calls |-> <<>>,
     total_time_ms |-> 0, confidence |-> 0]

\* raw_str is JSON text for a list, a string, a number or null
NotAnObject ==
    [json |-> TRUE, object |-> FALSE, function_calls |-> <<>>,
     total_time_ms |-> 0, confidence |-> 0]

Sample(calls, confidence, ms) ==
    [raised |-> FALSE, function_calls |-> calls, total_time_ms |-> ms,
     confidence |-> confidence]

\* raw.get of line 489 on a value that is no dict: AttributeError
AttributeError ==
    [raised |-> TRUE, function_calls |-> <<>>, total_time_ms |-> 0,
     confidence |-> 0]

generate_cactus(raw) ==
    IF ~raw.json
    THEN Sample(<<>>, 0, 0)
    ELSE IF ~raw.object
         THEN AttributeError
         ELSE Sample(raw.function_calls, raw.confidence, raw.total_time_ms)

alarm_at_5  == Call(set_alarm, << <<hour, StrV(<<"5">>)>> >>)
timer_1s    == Call(set_timer, << <<secs, IntV(1)>> >>)
stocks_call == Call(get_stocks, <<>>)

\* outputs of a local inference: unparsable text, JSON text for something
\* other than an object, an undeclared tool at full confidence, an alarm call
\* at three confidences, a timer call
LocalOutputs ==
    { Unparsable,
      NotAnObject,
      RawOutput(<<stocks_call>>, 100, 1),
      RawOutput(<<alarm_at_5>>, 0, 1),
      RawOutput(<<alarm_at_5>>, 50, 1),
      RawOutput(<<alarm_at_5>>, confidence_threshold, 1),
      RawOutput(<<timer_1s>>, 50, 2) }

\* what the remote model answered, or that the call raised
CloudReply(calls, ms) ==
    [raised |-> FALSE, function_calls |-> calls, total_time_ms |-> ms]

CloudRaised == [raised |-> TRUE, function_calls |-> <<>>, total_time_ms |-> 0]

CloudOutcomes ==
    { CloudReply(<<>>, 3), CloudReply(<<alarm_at_5>>, 3),
      CloudReply(<<stocks_call, timer_1s>>, 4), CloudRaised }

generate_cloud_validated(outcome) ==
    [function_calls |-> _validate(outcome.function_calls, tools).corrected,
     total_time_ms |-> outcome.total_time_ms]

generate_cloud(outcome) ==
    [function_calls |-> outcome.function_calls,
     total_time_ms |-> outcome.total_time_ms]

play_jazz == <<"p", "l", "a", "y", " ", "j", "a", "z", "z">>

two_clauses == <<"s", "e", "t", " ", "a", ",", " ", "g", "e", "t", " ", "b">>

three_clauses ==
    <<"s", "e", "t", " ", "a", ",", " ", "g", "e", "t", " ", "b", ",", " ",
      "a", "n", "d", " ", "p", "l", "a", "y", " ", "c">>

nested_clauses ==
    <<"s", "e", "t", " ", "a", " ", "b", " ", "a", "n", "d", " ", "g", "e",
      "t", " ", "c", " ", "d", ",", " ", "p", "l", "a", "y", " ", "e">>

be_brief == <<"b", "e", " ", "b", "r", "i", "e", "f">>

ok == <<"o", "k">>

Message(role, content) == [role |-> role, content |-> content]

\* a request that cannot be split, requests of two and three clauses, one
\* whose first clause splits again, one without a user message and one whose
\* latest user message follows an earlier one
Requests ==
    { <<Message("user", play_jazz)>>,
      <<Message("system", be_brief), Message("user", two_clauses)>>,
      <<Message("user", three_clauses)>>,
      <<Message("user", nested_clauses)>>,
      <<Message("system", be_brief)>>,
      <<Message("user", play_jazz), Message("assistant", ok),
        Message("user", two_clauses)>> }

\* ------------------------------------------------------------------------
\* _validate, _fingerprint and _decompose as generate_hybrid calls them: each
\* depends on its argument alone and is held as a function over the
\* arguments a request can bring to it
\* ------------------------------------------------------------------------

Range(f) == {f[i] : i \in DOMAIN f}

\* the function_calls a sample can hold
SampleCalls == {generate_cactus(raw).function_calls : raw \in LocalOutputs}

ValidateOf == [calls \in SampleCalls |-> _validate(calls, tools)]

\* the call lists _validate hands back
CorrectedCalls == {ValidateOf[calls].corrected : calls \in SampleCalls}

FingerprintOf == [calls \in CorrectedCalls |-> _fingerprint(calls)]

\* the contents of the messages of the requests
MessageTexts == {m.content : m \in UNION {Range(r) : r \in Requests}}

\* texts, and the clauses _decompose gives for them
WithClauses(texts) == texts \cup UNION {Range(_decompose(t)) : t \in texts}

\* what _resolve can be given: a clause, or a clause of a clause
Contents == WithClauses(WithClauses(MessageTexts))

DecomposeOf == [message \in Contents |-> _decompose(message)]

\* ------------------------------------------------------------------------
\* _on_device and _self_consistent_with_first
\* ------------------------------------------------------------------------

None == [is_none |-> TRUE, function_calls |-> <<>>, confidence |-> 0,
         total_time_ms |-> 0]

OnDeviceResult(calls, confidence, ms) ==
    [is_none |-> FALSE, function_calls |-> calls, confidence |-> confidence,
     total_time_ms |-> ms]

NoSample == Sample(<<>>, 0, 0)

\* the locals at the call of _on_device(msgs, tools), and the samples that
\* generate_cactus has returned to it so far
OnDeviceLocals(msgs) ==
    [msgs |-> msgs, first |-> NoSample, valid_runs |-> <<>>,
     spent_time |-> 0, k |-> 0, samples |-> <<>>]

NoOnDeviceOut == [result |-> None, time |-> 0]

\* an entry (corrected, confidence) of valid_runs
Run(corrected, confidence) == [calls |-> corrected, confidence |-> confidence]

RunKeys(valid_runs) ==
    [i \in 1..Len(valid_runs) |-> FingerprintOf[valid_runs[i].calls]]

\* Counter(keys)[key]
Count(keys, key) == Cardinality({i \in 1..Len(keys) : keys[i] = key})

\* counts.most_common(1)[0]: the first key inserted among the most frequent
MostCommon(keys) ==
    CHOOSE i \in 1..Len(keys) :
        /\ \A j \in 1..Len(keys) : Count(keys, keys[j]) <= Count(keys, keys[i])
        /\ \A j \in 1..(i - 1) : Count(keys, keys[j]) < Count(keys, keys[i])

Best_any(valid_runs, keys, best_key) ==
    CHOOSE i \in 1..Len(keys) :
        \A j \in 1..Len(keys) :
            valid_runs[j].confidence <= valid_runs[i].confidence

\* max(r for r in valid_runs if key matches, key=confidence): the first run
\* of the highest confidence among those of the best key
Best(valid_runs, keys, best_key) ==
    CHOOSE i \in 1..Len(keys) :
        /\ keys[i] = best_key
        /\ \A j \in 1..Len(keys) :
               keys[j] = best_key
                   => valid_runs[j].confidence <= valid_runs[i].confidence
        /\ \A j \in 1..(i - 1) :
               keys[j] = best_key
                   => valid_runs[j].confidence < valid_runs[i].confidence

Threshold_all(n) == n

Threshold(n) == Max(2, (n \div 2) + 1)

BestResult(best, spent_time) ==
    OnDeviceResult(best.calls, best.confidence, spent_time)

ConsensusOn(valid_runs, keys, best_key, spent_time, n) ==
    IF Count(keys, best_key) >= Threshold(n)
    THEN [result |-> BestResult(valid_runs[Best(valid_runs, keys, best_key)],
                                spent_time),
          time |-> spent_time]
    ELSE [result |-> None, time |-> spent_time]

ConsensusOver(valid_runs, keys, spent_time, n) ==
    ConsensusOn(valid_runs, keys, keys[MostCommon(keys)], spent_time, n)

\* the vote is held only over runs as confident as the fast path asks
Consensus_confident(valid_runs, spent_time, n) ==
    IF \A i \in 1..Len(valid_runs) :
           valid_runs[i].confidence < confidence_threshold
    THEN [result |-> None, time |-> spent_time]
    ELSE ConsensusOver(valid_runs, RunKeys(valid_runs), spent_time, n)

\* lines 654-667: the vote over valid_runs
Consensus(valid_runs, spent_time, n) ==
    IF valid_runs = <<>>
    THEN [result |-> None, time |-> spent_time]
    ELSE ConsensusOver(valid_runs, RunKeys(valid_runs), spent_time, n)

ValidRun_unchecked(validated, confidence) ==
    <<Run(validated.corrected, confidence)>>

ValidRun(validated, confidence) ==
    IF validated.is_valid THEN <<Run(validated.corrected, confidence)>> ELSE <<>>

FastPath_strict(first, validated) ==
    validated.is_valid /\ first.confidence > confidence_threshold

FastPath(first, validated) ==
    validated.is_valid /\ first.confidence >= confidence_threshold

\* every generate_cactus call is counted with the latency it returned
Inferred(local) ==
    /\ n_local' = n_local + 1
    /\ local_ms' = local_ms + local.total_time_ms

\* an exception of generate_cactus leaves _on_device, _resolve and
\* generate_hybrid, none of which catches it
LocalRaised ==
    /\ pc' = "raised"
    /\ UNCHANGED <<od, od_out>>

FirstValidated(first, validated) ==
    /\ Inferred(first)
    /\ IF first.raised
       THEN LocalRaised
       ELSE IF FastPath(first, validated)
            THEN /\ od' = [od EXCEPT !.first = first, !.samples = <<first>>]
                 /\ od_out' = [result |-> OnDeviceResult(validated.corrected,
                                                         first.confidence,
                                                         first.total_time_ms),
                               time |-> first.total_time_ms]
                 /\ pc' = "on_device_done"
            ELSE /\ od' = [od EXCEPT !.first = first,
                                     !.valid_runs = ValidRun(validated,
                                                             first.confidence),
                                     !.spent_time = first.total_time_ms,
                                     !.samples = <<first>>]
                 /\ od_out' = od_out
                 /\ pc' = "samples"

FirstSampled(first) ==
    FirstValidated(first, ValidateOf[first.function_calls])

\* _on_device lines 674-683 with lines 643-645 of the helper it enters: the
\* first sample, the fast path
FirstSample ==
    /\ pc = "first_sample"
    /\ \E raw \in LocalOutputs : FirstSampled(generate_cactus(raw))
    /\ UNCHANGED <<messages, frames, res_out, top, result, cloud_log,
                   resolved_log>>
    /\ UNCHANGED <<validate_vars, fingerprint_vars, decompose_vars, coerce_vars,
                   listen_vars, cactus_vars, stream_vars, ring_vars>>

\* the samples run side by side: the time spent is that of the slowest
ExtraValidated_overlapped(local, validated) ==
    /\ Inferred(local)
    /\ IF local.raised
       THEN LocalRaised
       ELSE /\ od' = [od EXCEPT !.spent_time = Max(@, local.total_time_ms),
                                !.valid_runs = @ \o ValidRun(validated,
                                                             local.confidence),
                                !.k = @ + 1,
                                !.samples = @ \o <<local>>]
            /\ UNCHANGED <<pc, od_out>>

ExtraValidated(local, validated) ==
    /\ Inferred(local)
    /\ IF local.raised
       THEN LocalRaised
       ELSE /\ od' = [od EXCEPT !.spent_time = @ + local.total_time_ms,
                                !.valid_runs = @ \o ValidRun(validated,
                                                             local.confidence),
                                !.k = @ + 1,
                                !.samples = @ \o <<local>>]
            /\ UNCHANGED <<pc, od_out>>

ExtraSampled(local) ==
    ExtraValidated(local, ValidateOf[local.function_calls])

\* one turn of the loop of lines 647-652
ExtraSample ==
    /\ pc = "samples"
    /\ od.k < N_SAMPLES - 1
    /\ \E raw \in LocalOutputs : ExtraSampled(generate_cactus(raw))
    /\ UNCHANGED <<messages, frames, res_out, top, result, cloud_log,
                   resolved_log>>
    /\ UNCHANGED <<validate_vars, fingerprint_vars, decompose_vars, coerce_vars,
                   listen_vars, cactus_vars, stream_vars, ring_vars>>

Vote_early ==
    /\ pc = "samples"
    /\ od.k = N_SAMPLES - 2
    /\ od_out' = Consensus(od.valid_runs, od.spent_time, N_SAMPLES)
    /\ pc' = "on_device_done"
    /\ UNCHANGED <<messages, od, frames, res_out, top, result, n_local,
                   local_ms, cloud_log,
                   resolved_log>>
    /\ UNCHANGED <<validate_vars, fingerprint_vars, decompose_vars, coerce_vars,
                   listen_vars, cactus_vars, stream_vars, ring_vars>>

\* lines 654-667 once the loop has ended
Vote ==
    /\ pc = "samples"
    /\ od.k = N_SAMPLES - 1
    /\ od_out' = Consensus(od.valid_runs, od.spent_time, N_SAMPLES)
    /\ pc' = "on_device_done"
    /\ UNCHANGED <<messages, od, frames, res_out, top, result, n_local,
                   local_ms, cloud_log,
                   resolved_log>>
    /\ UNCHANGED <<validate_vars, fingerprint_vars, decompose_vars, coerce_vars,
                   listen_vars, cactus_vars, stream_vars, ring_vars>>

\* ------------------------------------------------------------------------
\* _resolve and the routing of generate_hybrid
\* ------------------------------------------------------------------------

IsUser(m) == m.role = "user"

NotUser(m) == m.role # "user"

user_msgs == SelectSeq(messages, IsUser)

non_user == SelectSeq(messages, NotUser)

\* the part is added to the whole request
PartMsgs_whole_request(content) == messages \o <<Message("user", content)>>

\* msgs of _resolve, line 719
PartMsgs(content) == non_user \o <<Message("user", content)>>

\* the locals of _resolve(content, depth) at its call
ResolveFrame(content, depth) ==
    [content |-> content, depth |-> depth, time_spent |-> 0, parts |-> <<>>,
     i |-> 0, all_calls |-> <<>>, total_time |-> 0]

Innermost == frames[Len(frames)]

Popped == SubSeq(frames, 1, Len(frames) - 1)

NoResolveOut == [is_none |-> TRUE, calls |-> <<>>, time |-> 0]

TopIdle ==
    [spent_time |-> 0, sub_contents |-> <<>>, i |-> 0, all_calls |-> <<>>,
     total_time |-> 0, success |-> TRUE]

NoHybridResult ==
    [function_calls |-> <<>>, total_time_ms |-> 0, source |-> "none",
     has_confidence |-> FALSE, confidence |-> 0]

HybridResult_on_device(calls, ms, source) ==
    [function_calls |-> calls, total_time_ms |-> ms, source |-> "on-device",
     has_confidence |-> FALSE, confidence |-> 0]

HybridResult(calls, ms, source) ==
    [function_calls |-> calls, total_time_ms |-> ms, source |-> source,
     has_confidence |-> FALSE, confidence |-> 0]

\* the latest user message is split whatever _decompose returns for it
Splits_any_user_message == user_msgs # <<>>

\* the latest user message splits into more than one part, lines 746-748
Splits == user_msgs # <<>> /\ Len(DecomposeOf[user_msgs[Len(user_msgs)].content]) > 1

\* _resolve decomposes whatever its depth
PartSplits_any_depth(frame) == Len(DecomposeOf[frame.content]) > 1

\* _resolve decomposes, lines 724-726
PartSplits(frame) ==
    frame.depth < max_depth /\ Len(DecomposeOf[frame.content]) > 1

\* The locals of a call that has returned, and a returned value that has
\* been taken, are dropped.

\* lines 740-743: the whole message resolved on-device
AcceptWhole ==
    /\ pc = "on_device_done"
    /\ frames = <<>>
    /\ ~od_out.result.is_none
    /\ result' = [function_calls |-> od_out.result.function_calls,
                  total_time_ms |-> od_out.result.total_time_ms,
                  source |-> "on-device",
                  has_confidence |-> TRUE,
                  confidence |-> od_out.result.confidence]
    /\ pc' = "returned"
    /\ od' = OnDeviceLocals(<<>>)
    /\ od_out' = NoOnDeviceOut
    /\ UNCHANGED <<messages, frames, res_out, top,
                   n_local, local_ms, cloud_log,
                   resolved_log>>
    /\ UNCHANGED <<validate_vars, fingerprint_vars, decompose_vars, coerce_vars,
                   listen_vars, cactus_vars, stream_vars, ring_vars>>

\* lines 746-751: the whole message failed and its latest user text splits
DecomposeRequest ==
    /\ pc = "on_device_done"
    /\ frames = <<>>
    /\ od_out.result.is_none
    /\ Splits
    /\ top' = [spent_time |-> od_out.time,
               sub_contents |-> DecomposeOf[user_msgs[Len(user_msgs)].content],
               i |-> 1, all_calls |-> <<>>, total_time |-> od_out.time,
               success |-> TRUE]
    /\ pc' = "next_part"
    /\ od' = OnDeviceLocals(<<>>)
    /\ od_out' = NoOnDeviceOut
    /\ UNCHANGED <<messages, frames, res_out, result,
                   n_local, local_ms, cloud_log,
                   resolved_log>>
    /\ UNCHANGED <<validate_vars, fingerprint_vars, decompose_vars, coerce_vars,
                   listen_vars, cactus_vars, stream_vars, ring_vars>>

CloudRaise_caught ==
    /\ pc' = "returned"
    /\ result' = HybridResult(<<>>, 0, "cloud (fallback)")

\* lines 767 and 773 stand in no try: an exception of generate_cloud leaves
\* generate_hybrid
CloudRaise ==
    /\ pc' = "raised"
    /\ result' = result

CloudCall_user_only(before, outcome) ==
    /\ cloud_log' = Append(cloud_log, [messages |-> user_msgs, tools |-> tools,
                                       outcome |-> outcome])
    /\ IF outcome.raised
       THEN CloudRaise
       ELSE /\ pc' = "returned"
            /\ result' = HybridResult(
                   generate_cloud(outcome).function_calls,
                   generate_cloud(outcome).total_time_ms + before,
                   "cloud (fallback)")

\* generate_cloud(messages, tools) and what follows it: the source tag, the
\* time spent before added; an exception of the call leaves generate_hybrid
CloudCall(before, outcome) ==
    /\ cloud_log' = Append(cloud_log, [messages |-> messages, tools |-> tools,
                                       outcome |-> outcome])
    /\ IF outcome.raised
       THEN CloudRaise
       ELSE /\ pc' = "returned"
            /\ result' = HybridResult(
                   generate_cloud(outcome).function_calls,
                   generate_cloud(outcome).total_time_ms + before,
                   "cloud (fallback)")

CloudFallback_eager ==
    /\ pc = "on_device_done"
    /\ frames = <<>>
    /\ od_out.result.is_none
    /\ top' = [top EXCEPT !.spent_time = od_out.time]
    /\ \E outcome \in CloudOutcomes : CloudCall(od_out.time, outcome)
    /\ od' = OnDeviceLocals(<<>>)
    /\ od_out' = NoOnDeviceOut
    /\ UNCHANGED <<messages, frames, res_out, n_local, local_ms,
                   resolved_log>>
    /\ UNCHANGED <<validate_vars, fingerprint_vars, decompose_vars, coerce_vars,
                   listen_vars, cactus_vars, stream_vars, ring_vars>>

\* lines 772-776: the whole message failed and there is nothing to split
CloudFallback ==
    /\ pc = "on_device_done"
    /\ frames = <<>>
    /\ od_out.result.is_none
    /\ ~Splits
    /\ top' = [top EXCEPT !.spent_time = od_out.time]
    /\ \E outcome \in CloudOutcomes : CloudCall(od_out.time, outcome)
    /\ od' = OnDeviceLocals(<<>>)
    /\ od_out' = NoOnDeviceOut
    /\ UNCHANGED <<messages, frames, res_out, n_local, local_ms,
                   resolved_log>>
    /\ UNCHANGED <<validate_vars, fingerprint_vars, decompose_vars, coerce_vars,
                   listen_vars, cactus_vars, stream_vars, ring_vars>>

NextPart_but_last ==
    /\ pc = "next_part"
    /\ top.i < Len(top.sub_contents)
    /\ frames' = <<ResolveFrame(top.sub_contents[top.i], 0)>>
    /\ od' = OnDeviceLocals(PartMsgs(top.sub_contents[top.i]))
    /\ pc' = "first_sample"
    /\ UNCHANGED <<messages, od_out, res_out, top, result, n_local, local_ms,
                   cloud_log, resolved_log>>
    /\ UNCHANGED <<validate_vars, fingerprint_vars, decompose_vars, coerce_vars,
                   listen_vars, cactus_vars, stream_vars, ring_vars>>

\* lines 752-753: the next sub_content is handed to _resolve, which calls
\* _on_device on it (lines 719-720)
NextPart ==
    /\ pc = "next_part"
    /\ top.i <= Len(top.sub_contents)
    /\ frames' = <<ResolveFrame(top.sub_contents[top.i], 0)>>
    /\ od' = OnDeviceLocals(PartMsgs(top.sub_contents[top.i]))
    /\ pc' = "first_sample"
    /\ UNCHANGED <<messages, od_out, res_out, top, result, n_local, local_ms,
                   cloud_log,
                   resolved_log>>
    /\ UNCHANGED <<validate_vars, fingerprint_vars, decompose_vars, coerce_vars,
                   listen_vars, cactus_vars, stream_vars, ring_vars>>

\* lines 760-765: every sub_content resolved
MergeParts ==
    /\ pc = "next_part"
    /\ top.i > Len(top.sub_contents)
    /\ top.success
    /\ result' = HybridResult(top.all_calls, top.total_time, "on-device")
    /\ pc' = "returned"
    /\ UNCHANGED <<messages, od, od_out, frames, res_out, top, n_local,
                   local_ms, cloud_log,
                   resolved_log>>
    /\ UNCHANGED <<validate_vars, fingerprint_vars, decompose_vars, coerce_vars,
                   listen_vars, cactus_vars, stream_vars, ring_vars>>

PartResolved_prepend ==
    /\ pc = "resolve_done"
    /\ frames = <<>>
    /\ ~res_out.is_none
    /\ top' = [top EXCEPT !.total_time = @ + res_out.time,
                          !.all_calls = res_out.calls \o @,
                          !.i = @ + 1]
    /\ pc' = "next_part"
    /\ res_out' = NoResolveOut
    /\ UNCHANGED <<messages, od, od_out, frames, result,
                   n_local, local_ms, cloud_log, resolved_log>>
    /\ UNCHANGED <<validate_vars, fingerprint_vars, decompose_vars, coerce_vars,
                   listen_vars, cactus_vars, stream_vars, ring_vars>>

\* lines 753-758: _resolve returned the calls of a sub_content
PartResolved ==
    /\ pc = "resolve_done"
    /\ frames = <<>>
    /\ ~res_out.is_none
    /\ top' = [top EXCEPT !.total_time = @ + res_out.time,
                          !.all_calls = @ \o res_out.calls,
                          !.i = @ + 1]
    /\ pc' = "next_part"
    /\ res_out' = NoResolveOut
    /\ UNCHANGED <<messages, od, od_out, frames, result,
                   n_local, local_ms, cloud_log,
                   resolved_log>>
    /\ UNCHANGED <<validate_vars, fingerprint_vars, decompose_vars, coerce_vars,
                   listen_vars, cactus_vars, stream_vars, ring_vars>>

\* a sub_content that failed is skipped and the next one is tried
FallbackAfterParts_try_next ==
    /\ pc = "resolve_done"
    /\ frames = <<>>
    /\ res_out.is_none
    /\ top' = [top EXCEPT !.total_time = @ + res_out.time,
                          !.success = FALSE,
                          !.i = @ + 1]
    /\ pc' = "next_part"
    /\ res_out' = NoResolveOut
    /\ UNCHANGED <<messages, od, od_out, frames, result, n_local, local_ms,
                   cloud_log, resolved_log>>
    /\ UNCHANGED <<validate_vars, fingerprint_vars, decompose_vars, coerce_vars,
                   listen_vars, cactus_vars, stream_vars, ring_vars>>

\* lines 753-757 and 767-770: _resolve returned None for a sub_content
FallbackAfterParts ==
    /\ pc = "resolve_done"
    /\ frames = <<>>
    /\ res_out.is_none
    /\ top' = [top EXCEPT !.total_time = @ + res_out.time,
                          !.success = FALSE]
    /\ \E outcome \in CloudOutcomes :
           CloudCall(top.total_time + res_out.time, outcome)
    /\ res_out' = NoResolveOut
    /\ UNCHANGED <<messages, od, od_out, frames, n_local, local_ms,
                   resolved_log>>
    /\ UNCHANGED <<validate_vars, fingerprint_vars, decompose_vars, coerce_vars,
                   listen_vars, cactus_vars, stream_vars, ring_vars>>

\* lines 720-722: _on_device resolved the content of the innermost _resolve
ResolveAccept ==
    /\ pc = "on_device_done"
    /\ frames # <<>>
    /\ ~od_out.result.is_none
    /\ res_out' = [is_none |-> FALSE, calls |-> od_out.result.function_calls,
                   time |-> od_out.time]
    /\ frames' = Popped
    /\ pc' = "resolve_done"
    /\ od' = OnDeviceLocals(<<>>)
    /\ od_out' = NoOnDeviceOut
    /\ resolved_log' = Append(resolved_log,
                              [content |-> Innermost.content,
                               calls |-> od_out.result.function_calls])
    /\ UNCHANGED <<messages, top, result, n_local, local_ms, cloud_log>>
    /\ UNCHANGED <<validate_vars, fingerprint_vars, decompose_vars, coerce_vars,
                   listen_vars, cactus_vars, stream_vars, ring_vars>>

\* lines 724-728: _on_device failed and the content splits
ResolveDecompose ==
    /\ pc = "on_device_done"
    /\ frames # <<>>
    /\ od_out.result.is_none
    /\ PartSplits(Innermost)
    /\ frames' = [frames EXCEPT ![Len(frames)] =
                     [@ EXCEPT !.time_spent = od_out.time,
                               !.parts = DecomposeOf[Innermost.content],
                               !.i = 1,
                               !.all_calls = <<>>,
                               !.total_time = od_out.time]]
    /\ pc' = "resolve_part"
    /\ od' = OnDeviceLocals(<<>>)
    /\ od_out' = NoOnDeviceOut
    /\ UNCHANGED <<messages, res_out, top, result,
                   n_local, local_ms, cloud_log,
                   resolved_log>>
    /\ UNCHANGED <<validate_vars, fingerprint_vars, decompose_vars, coerce_vars,
                   listen_vars, cactus_vars, stream_vars, ring_vars>>

\* line 737: _on_device failed and the content is not decomposed
ResolveFail ==
    /\ pc = "on_device_done"
    /\ frames # <<>>
    /\ od_out.result.is_none
    /\ ~PartSplits(Innermost)
    /\ res_out' = [is_none |-> TRUE, calls |-> <<>>, time |-> od_out.time]
    /\ frames' = Popped
    /\ pc' = "resolve_done"
    /\ od' = OnDeviceLocals(<<>>)
    /\ od_out' = NoOnDeviceOut
    /\ UNCHANGED <<messages, top, result, n_local, local_ms, cloud_log,
                   resolved_log>>
    /\ UNCHANGED <<validate_vars, fingerprint_vars, decompose_vars, coerce_vars,
                   listen_vars, cactus_vars, stream_vars, ring_vars>>

ResolvePart_same_content ==
    /\ pc = "resolve_part"
    /\ Innermost.i <= Len(Innermost.parts)
    /\ frames' = Append(frames, ResolveFrame(Innermost.content,
                                             Innermost.depth + 1))
    /\ od' = OnDeviceLocals(PartMsgs(Innermost.content))
    /\ pc' = "first_sample"
    /\ UNCHANGED <<messages, od_out, res_out, top, result, n_local, local_ms,
                   cloud_log, resolved_log>>
    /\ UNCHANGED <<validate_vars, fingerprint_vars, decompose_vars, coerce_vars,
                   listen_vars, cactus_vars, stream_vars, ring_vars>>

\* lines 729-730: the next part is handed to _resolve one level deeper
ResolvePart ==
    /\ pc = "resolve_part"
    /\ Innermost.i <= Len(Innermost.parts)
    /\ frames' = Append(frames, ResolveFrame(Innermost.parts[Innermost.i],
                                             Innermost.depth + 1))
    /\ od' = OnDeviceLocals(PartMsgs(Innermost.parts[Innermost.i]))
    /\ pc' = "first_sample"
    /\ UNCHANGED <<messages, od_out, res_out, top, result, n_local, local_ms,
                   cloud_log,
                   resolved_log>>
    /\ UNCHANGED <<validate_vars, fingerprint_vars, decompose_vars, coerce_vars,
                   listen_vars, cactus_vars, stream_vars, ring_vars>>

\* line 735: every part resolved
ResolveMerged ==
    /\ pc = "resolve_part"
    /\ Innermost.i > Len(Innermost.parts)
    /\ res_out' = [is_none |-> FALSE, calls |-> Innermost.all_calls,
                   time |-> Innermost.total_time]
    /\ frames' = Popped
    /\ pc' = "resolve_done"
    /\ UNCHANGED <<messages, od, od_out, top, result, n_local, local_ms,
                   cloud_log,
                   resolved_log>>
    /\ UNCHANGED <<validate_vars, fingerprint_vars, decompose_vars, coerce_vars,
                   listen_vars, cactus_vars, stream_vars, ring_vars>>

\* lines 730-734: the deeper _resolve returned the calls of a part
SubPartResolved ==
    /\ pc = "resolve_done"
    /\ frames # <<>>
    /\ ~res_out.is_none
    /\ frames' = [frames EXCEPT ![Len(frames)] =
                     [@ EXCEPT !.total_time = @ + res_out.time,
                               !.all_calls = @ \o res_out.calls,
                               !.i = @ + 1]]
    /\ pc' = "resolve_part"
    /\ res_out' = NoResolveOut
    /\ UNCHANGED <<messages, od, od_out, top, result,
                   n_local, local_ms, cloud_log,
                   resolved_log>>
    /\ UNCHANGED <<validate_vars, fingerprint_vars, decompose_vars, coerce_vars,
                   listen_vars, cactus_vars, stream_vars, ring_vars>>

SubPartFailed_own_time ==
    /\ pc = "resolve_done"
    /\ frames # <<>>
    /\ res_out.is_none
    /\ res_out' = [is_none |-> TRUE, calls |-> <<>>, time |-> res_out.time]
    /\ frames' = Popped
    /\ pc' = "resolve_done"
    /\ UNCHANGED <<messages, od, od_out, top, result, n_local, local_ms,
                   cloud_log,
                   resolved_log>>
    /\ UNCHANGED <<validate_vars, fingerprint_vars, decompose_vars, coerce_vars,
                   listen_vars, cactus_vars, stream_vars, ring_vars>>

\* lines 730-733: the deeper _resolve returned None for a part
SubPartFailed ==
    /\ pc = "resolve_done"
    /\ frames # <<>>
    /\ res_out.is_none
    /\ res_out' = [is_none |-> TRUE, calls |-> <<>>,
                   time |-> Innermost.total_time + res_out.time]
    /\ frames' = Popped
    /\ pc' = "resolve_done"
    /\ UNCHANGED <<messages, od, od_out, top, result, n_local, local_ms,
                   cloud_log,
                   resolved_log>>
    /\ UNCHANGED <<validate_vars, fingerprint_vars, decompose_vars, coerce_vars,
                   listen_vars, cactus_vars, stream_vars, ring_vars>>

HybridIdle ==
    /\ messages = <<>>
    /\ pc = "idle"
    /\ od = OnDeviceLocals(<<>>)
    /\ od_out = NoOnDeviceOut
    /\ frames = <<>>
    /\ res_out = NoResolveOut
    /\ top = TopIdle
    /\ result = NoHybridResult
    /\ n_local = 0
    /\ local_ms = 0
    /\ cloud_log = <<>>
    /\ resolved_log = <<>>

\* generate_hybrid is called with a request and is about to call
\* _on_device(messages, tools), line 740
Init ==
    /\ messages \in Requests
    /\ pc = "first_sample"
    /\ od = OnDeviceLocals(messages)
    /\ od_out = NoOnDeviceOut
    /\ frames = <<>>
    /\ res_out = NoResolveOut
    /\ top = TopIdle
    /\ result = NoHybridResult
    /\ n_local = 0
    /\ local_ms = 0
    /\ cloud_log = <<>>
    /\ resolved_log = <<>>
    /\ ValidateIdle
    /\ FingerprintIdle
    /\ DecomposeIdle
    /\ CoerceIdle
    /\ ListenIdle
    /\ CactusIdle
    /\ StreamIdle
    /\ RingIdle

Next ==
    \/ FirstSample
    \/ ExtraSample
    \/ Vote
    \/ AcceptWhole
    \/ DecomposeRequest
    \/ CloudFallback
    \/ NextPart
    \/ MergeParts
    \/ PartResolved
    \/ FallbackAfterParts
    \/ ResolveAccept
    \/ ResolveDecompose
    \/ ResolveFail
    \/ ResolvePart
    \/ ResolveMerged
    \/ SubPartResolved
    \/ SubPartFailed

Spec == Init /\ [][Next]_vars

\* generate_hybrid runs in one thread from its call to its return or to the
\* exception that leaves it: a step that can be taken is taken
FairSpec == Init /\ [][Next]_vars /\ WF_vars(Next)

\* ------------------------------------------------------------------------
\* _validate applied to every bounded call list
\* ------------------------------------------------------------------------

ValidateInit ==
    /\ v_calls \in SeqsUpTo(CallUniverse, MaxCalls)
    /\ v_out = NoResult
    /\ v_pc = "call"
    /\ FingerprintIdle
    /\ HybridIdle
    /\ DecomposeIdle
    /\ CoerceIdle
    /\ ListenIdle
    /\ CactusIdle
    /\ StreamIdle
    /\ RingIdle

ValidateCall ==
    /\ v_pc = "call"
    /\ v_out' = Returned(_validate(v_calls, tools))
    /\ v_pc' = "done"
    /\ UNCHANGED <<v_calls, fingerprint_vars, hybrid_vars, decompose_vars,
                   coerce_vars, listen_vars, cactus_vars, stream_vars, ring_vars>>

ValidateNext == ValidateCall

SpecValidate == ValidateInit /\ [][ValidateNext]_vars

\* ------------------------------------------------------------------------
\* _fingerprint applied to every pair of bounded call lists
\* ------------------------------------------------------------------------

one == StrV(<<"1">>)

\* calls that differ in argument order, in the type of one value, in their
\* arguments and in their name
FingerprintCalls ==
    { Call(set_alarm, << <<hour, IntV(1)>>, <<extra, one>> >>),
      Call(set_alarm, << <<extra, one>>, <<hour, IntV(1)>> >>),
      Call(set_alarm, << <<hour, IntV(1)>>, <<extra, IntV(1)>> >>),
      Call(set_alarm, << <<hour, IntV(1)>> >>),
      Call(set_timer, << <<secs, FloatV(1)>> >>),
      Call(set_timer, <<>>) }

\* longest call list handed to _fingerprint
MaxFingerprintCalls == 2

FingerprintInit ==
    /\ f_a \in SeqsUpTo(FingerprintCalls, MaxFingerprintCalls)
    /\ f_b \in SeqsUpTo(FingerprintCalls, MaxFingerprintCalls)
    /\ f_key_a = <<>>
    /\ f_key_b = <<>>
    /\ f_pc = "call"
    /\ ValidateIdle
    /\ HybridIdle
    /\ DecomposeIdle
    /\ CoerceIdle
    /\ ListenIdle
    /\ CactusIdle
    /\ StreamIdle
    /\ RingIdle

FingerprintCall ==
    /\ f_pc = "call"
    /\ f_key_a' = _fingerprint(f_a)
    /\ f_key_b' = _fingerprint(f_b)
    /\ f_pc' = "done"
    /\ UNCHANGED <<f_a, f_b, validate_vars, hybrid_vars, decompose_vars,
                   coerce_vars, listen_vars, cactus_vars, stream_vars, ring_vars>>

FingerprintNext == FingerprintCall

SpecFingerprint == FingerprintInit /\ [][FingerprintNext]_vars

\* ------------------------------------------------------------------------
\* _decompose applied to every bounded message
\* ------------------------------------------------------------------------

\* "set an alarm"
set_an_alarm ==
    <<"s", "e", "t", " ", "a", "n", " ", "a", "l", "a", "r", "m">>

\* "Sets the alarm"
sets_the_alarm ==
    <<"S", "e", "t", "s", " ", "t", "h", "e", " ", "a", "l", "a", "r", "m">>

\* "tom"
tom ==
    <<"t", "o", "m">>

\* "jerry"
jerry ==
    <<"j", "e", "r", "r", "y">>

\* "play jazz"
play_two_words ==
    <<"p", "l", "a", "y", " ", "j", "a", "z", "z">>

\* "Play's some jazz"
plays_possessive ==
    <<"P", "l", "a", "y", "'", "s", " ", "s", "o", "m", "e", " ", "j", "a",
      "z", "z">>

\* "mom's phone rings"
moms_phone ==
    <<"m", "o", "m", "'", "s", " ", "p", "h", "o", "n", "e", " ", "r", "i",
      "n", "g", "s">>

\* "and go home"
and_go_home ==
    <<"a", "n", "d", " ", "g", "o", " ", "h", "o", "m", "e">>

\* "Set an alarm for 6:00 AM"
alarm_at_six ==
    <<"S", "e", "t", " ", "a", "n", " ", "a", "l", "a", "r", "m", " ", "f",
      "o", "r", " ", "6", ":", "0", "0", " ", "A", "M">>

\* "check the weather in Paris"
weather_in_paris ==
    <<"c", "h", "e", "c", "k", " ", "t", "h", "e", " ", "w", "e", "a", "t",
      "h", "e", "r", " ", "i", "n", " ", "P", "a", "r", "i", "s">>

\* "Play some jazz"
play_some_jazz ==
    <<"P", "l", "a", "y", " ", "s", "o", "m", "e", " ", "j", "a", "z", "z">>

\* clauses with and without a leading verb, of one, two and three words, with
\* a possessive, with a leading "and", and the empty clause
DecomposeClauses ==
    { <<>>, set_an_alarm, sets_the_alarm, tom, jerry, play_two_words,
      plays_possessive, moms_phone, and_go_home }

\* what stands between two clauses
DecomposeSeparators ==
    { <<",", " ">>,
      <<",", " ", "a", "n", "d", " ">>,
      <<" ", "a", "n", "d", " ">>,
      <<" ", "A", "N", "D", " ">>,
      <<",">>,
      <<",", " ", " ", "a", "n", "d", " ", " ">> }

ShortClauses == {set_an_alarm, play_two_words, tom}

ShortSeparators ==
    { <<",", " ">>, <<",", " ", "a", "n", "d", " ">>, <<" ", "a", "n", "d", " ">> }

DecomposeMessages ==
    DecomposeClauses
    \cup {alarm_at_six \o <<",", " ", "a", "n", "d", " ">> \o weather_in_paris,
          play_some_jazz}
    \cup {a \o x \o b : a \in DecomposeClauses, x \in DecomposeSeparators,
                         b \in DecomposeClauses}
    \cup {a \o x \o b \o y \o c : a \in ShortClauses, x \in ShortSeparators,
                                   b \in ShortClauses, y \in ShortSeparators,
                                   c \in ShortClauses}

DecomposeInit ==
    /\ d_message \in DecomposeMessages
    /\ d_parts = <<>>
    /\ d_pc = "call"
    /\ ValidateIdle
    /\ FingerprintIdle
    /\ HybridIdle
    /\ CoerceIdle
    /\ ListenIdle
    /\ CactusIdle
    /\ StreamIdle
    /\ RingIdle

DecomposeCall ==
    /\ d_pc = "call"
    /\ d_parts' = _decompose(d_message)
    /\ d_pc' = "done"
    /\ UNCHANGED <<d_message, validate_vars, fingerprint_vars, hybrid_vars,
                   coerce_vars, listen_vars, cactus_vars, stream_vars, ring_vars>>

DecomposeNext == DecomposeCall

SpecDecompose == DecomposeInit /\ [][DecomposeNext]_vars

\* ------------------------------------------------------------------------
\* _coerce applied to every bounded value and type
\* ------------------------------------------------------------------------

\* the raw values of the calls, and strings and numbers a boolean parameter
\* may be given
CoerceValues ==
    NumericRaw \cup OtherRaw
    \cup { StrV(<<"t", "r", "u", "e">>), StrV(<<"T", "r", "u", "e">>),
           StrV(<<"T", "R", "U", "E">>), StrV(<<"y", "e", "s">>),
           StrV(<<"1">>), StrV(<<"0">>), StrV(<<" ", "1">>),
           StrV(<<"f", "a", "l", "s", "e">>), StrV(<<"o", "n">>),
           IntV(1), IntV(-1), FloatV(0), FloatV(1), NegInfV, ListV(<<>>),
           ListV(<<IntV(0)>>) }

\* the types of a JSON schema _coerce knows, and one it does not
CoerceTypes == {"integer", "number", "boolean", "string", "array", "object"}

CoerceInit ==
    /\ c_value \in CoerceValues
    /\ c_type \in CoerceTypes
    /\ c_out = NoValue
    /\ c_pc = "call"
    /\ ValidateIdle
    /\ FingerprintIdle
    /\ HybridIdle
    /\ DecomposeIdle
    /\ ListenIdle
    /\ CactusIdle
    /\ StreamIdle
    /\ RingIdle

CoerceCall ==
    /\ c_pc = "call"
    /\ c_out' = _coerce(c_value, c_type)
    /\ c_pc' = "done"
    /\ UNCHANGED <<c_value, c_type, validate_vars, fingerprint_vars,
                   hybrid_vars, decompose_vars, listen_vars, cactus_vars, stream_vars, ring_vars>>

CoerceNext == CoerceCall

SpecCoerce == CoerceInit /\ [][CoerceNext]_vars

\* ------------------------------------------------------------------------
\* main of the always-listening demos: the wake word gate
\* ------------------------------------------------------------------------

ARMED_SECONDS == 12

\* the last second of the clock the model follows
MaxClock == 30

\* A transcript, by what main asks of it: one of WAKE_WORDS is a substring of
\* it, it starts with a greeting and a token similar to "cactus", it looks
\* like a WhatsApp command once the wake word is stripped, and recipient
\* and message can be extracted from it
Transcripts ==
    [wake_phrase : BOOLEAN, greeting_and_similar : BOOLEAN,
     command : BOOLEAN, parsed : BOOLEAN]

\* the two ways detect_wake_word returns True
detect_wake_word(text) == text.wake_phrase \/ text.greeting_and_similar

\* the gate stays open one second longer
Disarmed_late(heard_wake, t) == ~heard_wake /\ t > armed_until' + 1

\* not heard_wake and time.time() > armed_until
Disarmed(heard_wake, t) == ~heard_wake /\ t > armed_until'

\* whatsapp_send_via_web is called for the transcript
Sends(text, heard_wake, t) ==
    /\ ~Disarmed(heard_wake, t)
    /\ text.command
    /\ text.parsed

SendFor(text, heard_wake) ==
    [is_none |-> FALSE, heard_wake |-> heard_wake,
     wake_phrase |-> text.wake_phrase]

\* the clock of the process starts after the epoch
ListenInit ==
    /\ now = 1
    /\ armed_until = 0
    /\ last_wake = 0
    /\ last_phrase = 0
    /\ sent = NoSend
    /\ m_pc = "listening"
    /\ ValidateIdle
    /\ FingerprintIdle
    /\ HybridIdle
    /\ DecomposeIdle
    /\ CoerceIdle
    /\ CactusIdle
    /\ StreamIdle
    /\ RingIdle

\* a turn of the loop that ends before a transcript is handled: the tick is
\* not due, a transcription is running, there is too little audio or no
\* speech; and the time that recording, transcribing and sending take
NoTranscript ==
    /\ m_pc = "listening"
    /\ now < MaxClock
    /\ now' = now + 1
    /\ sent' = NoSend
    /\ UNCHANGED <<armed_until, last_wake, last_phrase, m_pc>>
    /\ UNCHANGED <<validate_vars, fingerprint_vars, hybrid_vars,
                   decompose_vars, coerce_vars, cactus_vars, stream_vars,
                   ring_vars>>

\* a turn of the loop with a transcript, from detect_wake_word to the send;
\* the gate reads the clock again, later seconds after the wake word is
\* detected
Handled(text, heard_wake, later) ==
    /\ armed_until' = IF heard_wake THEN now + ARMED_SECONDS ELSE armed_until
    /\ last_wake' = IF heard_wake THEN now ELSE last_wake
    /\ last_phrase' = IF text.wake_phrase THEN now ELSE last_phrase
    /\ now' = IF heard_wake THEN now ELSE now + later
    /\ sent' = IF Sends(text, heard_wake, now + later)
               THEN SendFor(text, heard_wake)
               ELSE NoSend

HandleTranscript ==
    /\ m_pc = "listening"
    /\ \E text \in Transcripts : \E later \in 0..1 :
           /\ now + later <= MaxClock
           /\ Handled(text, detect_wake_word(text), later)
    /\ UNCHANGED m_pc
    /\ UNCHANGED <<validate_vars, fingerprint_vars, hybrid_vars,
                   decompose_vars, coerce_vars, cactus_vars, stream_vars,
                   ring_vars>>

ListenNext ==
    \/ NoTranscript
    \/ HandleTranscript

SpecListen == ListenInit /\ [][ListenNext]_vars

\* ------------------------------------------------------------------------
\* generate_cactus statement by statement, called time after time
\* ------------------------------------------------------------------------

\* generate_cactus calls made one after the other
MaxInferences == 3

OthersIdleForCactus ==
    /\ ValidateIdle
    /\ FingerprintIdle
    /\ HybridIdle
    /\ DecomposeIdle
    /\ CoerceIdle
    /\ ListenIdle
    /\ StreamIdle
    /\ RingIdle

CactusUnchanged ==
    UNCHANGED <<validate_vars, fingerprint_vars, hybrid_vars, decompose_vars,
                coerce_vars, listen_vars, stream_vars, ring_vars>>

\* the first generate_cactus call is entered, line 459
CactusCalled ==
    /\ cactus = [NoCactus EXCEPT !.pc = "init", !.calls = 1]
    /\ OthersIdleForCactus

\* line 461: model = cactus_init(functiongemma_path), a handle not seen before
cactus_init ==
    /\ cactus.pc = "init"
    /\ cactus' = [cactus EXCEPT !.model = cactus.calls,
                                !.live = @ \cup {cactus.calls},
                                !.acquired = @ + 1,
                                !.pc = "complete"]
    /\ CactusUnchanged

\* lines 463-475: raw_str = cactus_complete(model, ...)
cactus_complete ==
    /\ cactus.pc = "complete"
    /\ \E raw \in LocalOutputs :
           cactus' = [cactus EXCEPT !.raw_str = raw, !.pc = "destroy"]
    /\ CactusUnchanged

\* the model is released only where raw_str parses
cactus_destroy_if_parsed ==
    /\ cactus.pc = "destroy"
    /\ cactus' = [cactus EXCEPT
                      !.live = IF cactus.raw_str.json
                               THEN @ \ {cactus.model} ELSE @,
                      !.released = IF cactus.raw_str.json THEN @ + 1 ELSE @,
                      !.pc = "parse"]
    /\ CactusUnchanged

\* line 477: cactus_destroy(model)
cactus_destroy ==
    /\ cactus.pc = "destroy"
    /\ cactus' = [cactus EXCEPT !.live = @ \ {cactus.model},
                                !.released = @ + 1,
                                !.pc = "parse"]
    /\ CactusUnchanged

\* lines 479-492: raw_str is parsed and the sample is returned, or raw.get
\* raises
ParseAndReturn ==
    /\ cactus.pc = "parse"
    /\ cactus' = [cactus EXCEPT
                      !.out = generate_cactus(cactus.raw_str),
                      !.pc = IF generate_cactus(cactus.raw_str).raised
                             THEN "raised" ELSE "returned"]
    /\ CactusUnchanged

\* the caller calls generate_cactus again, as _on_device and
\* _self_consistent_with_first do at lines 648 and 675: new locals
NextInference ==
    /\ cactus.pc = "returned"
    /\ cactus.calls < MaxInferences
    /\ cactus' = [cactus EXCEPT !.pc = "init",
                                !.calls = @ + 1,
                                !.model = 0,
                                !.acquired = 0,
                                !.released = 0,
                                !.raw_str = NoCactus.raw_str]
    /\ CactusUnchanged

CactusNext ==
    \/ cactus_init
    \/ cactus_complete
    \/ cactus_destroy
    \/ ParseAndReturn
    \/ NextInference

SpecCactus == CactusCalled /\ [][CactusNext]_vars

\* ------------------------------------------------------------------------
\* The loop of main in the streaming demo and its transcription jobs
\* ------------------------------------------------------------------------

\* transcription jobs submitted in a run; a job is named by its number, and
\* stream.pending is the number of the future that pending refers to, 0 for
\* None.  stream.ticks is the number of ticks taken so far, kept modulo 2:
\* the loop never ends.
MaxJobs == 5

\* the jobs submitted so far
Submitted == 1..stream.pending

\* the jobs submitted and not finished
InFlight == Submitted \ stream.done

\* every tick may submit
Busy_never == FALSE

\* pending is not None and not pending.done(), line 383
Busy == stream.pending # 0 /\ stream.pending \notin stream.done

StreamUnchanged ==
    UNCHANGED <<validate_vars, fingerprint_vars, hybrid_vars, decompose_vars,
                coerce_vars, listen_vars, cactus_vars, ring_vars>>

\* main has entered its loop with pending = None, lines 359-374
StreamInit ==
    /\ stream = [NoStream EXCEPT !.pc = "tick"]
    /\ ValidateIdle
    /\ FingerprintIdle
    /\ HybridIdle
    /\ DecomposeIdle
    /\ CoerceIdle
    /\ ListenIdle
    /\ CactusIdle
    /\ RingIdle

\* lines 376-384: a tick that finds the job of pending unfinished
TickBusy ==
    /\ stream.pc = "tick"
    /\ Busy
    /\ stream' = [stream EXCEPT !.last_tick = "busy",
                                !.ticks = (@ + 1) % 2]
    /\ StreamUnchanged

\* lines 376-388: a tick with less than half a second of audio
TickNoAudio ==
    /\ stream.pc = "tick"
    /\ ~Busy
    /\ stream' = [stream EXCEPT !.last_tick = "no_audio",
                                !.ticks = (@ + 1) % 2]
    /\ StreamUnchanged

\* lines 376-391: a tick that submits a job; pending is rebound to its future
Submit ==
    /\ stream.pc = "tick"
    /\ ~Busy
    /\ stream.pending < MaxJobs
    /\ stream' = [stream EXCEPT !.pending = @ + 1,
                                !.last_tick = "submitted",
                                !.ticks = (@ + 1) % 2,
                                !.pc = "submitted"]
    /\ StreamUnchanged

\* lines 394-395 and 400-431: the job is done already, its text is taken
\* and goes through the wake word gate and the command handling
HandleNow ==
    /\ stream.pc = "submitted"
    /\ stream.pending \in stream.done
    /\ stream' = [stream EXCEPT !.handled = @ \cup {stream.pending},
                                !.pc = "tick"]
    /\ StreamUnchanged

\* lines 396-398: the job is not done yet, continue
NotDoneYet ==
    /\ stream.pc = "submitted"
    /\ stream.pending \notin stream.done
    /\ stream' = [stream EXCEPT !.pc = "tick"]
    /\ StreamUnchanged

\* the worker thread of the executor finishes the job it runs, the oldest
\* one not finished
JobCompletes ==
    /\ InFlight # {}
    /\ \E j \in InFlight :
           /\ \A k \in InFlight : j <= k
           /\ stream' = [stream EXCEPT !.done = @ \cup {j}]
    /\ StreamUnchanged

MainStep ==
    \/ TickBusy
    \/ TickNoAudio
    \/ Submit
    \/ HandleNow
    \/ NotDoneYet

StreamNext ==
    \/ TickBusy
    \/ TickNoAudio
    \/ Submit
    \/ HandleNow
    \/ NotDoneYet
    \/ JobCompletes

SpecStream == StreamInit /\ [][StreamNext]_vars

\* the main thread keeps running its loop, and the worker thread finishes
\* the job it was given
FairStream ==
    /\ StreamInit
    /\ [][StreamNext]_vars
    /\ WF_vars(MainStep)
    /\ WF_vars(JobCompletes)

\* ------------------------------------------------------------------------
\* AudioRingBuffer: push in the audio callback thread, snapshot_last in the
\* main thread
\* ------------------------------------------------------------------------

\* self.max_frames = int(max_seconds * sr), in frames
max_frames == 2

\* frames of the longest chunk the audio callback delivers
MaxChunk == 3

\* calls of push in a run; the frames are numbered as they arrive
MaxPushes == 3

\* largest int(seconds * self.sr) that snapshot_last is called with
MaxNeed == 2

\* the frames first..last, in order
RECURSIVE FramesFrom(_, _)
FramesFrom(first, last) ==
    IF first > last THEN <<>> ELSE <<first>> \o FramesFrom(first + 1, last)

\* np.concatenate(parts)
RECURSIVE Concatenate(_)
Concatenate(parts) ==
    IF parts = <<>> THEN <<>> ELSE Head(parts) \o Concatenate(Tail(parts))

\* data[-need:] of line 338: the last need frames, and for need = 0, where
\* -0 is 0, data[0:]
LastOf(data, need) ==
    IF need = 0 THEN data ELSE SubSeq(data, Len(data) - need + 1, Len(data))

RingUnchanged ==
    UNCHANGED <<validate_vars, fingerprint_vars, hybrid_vars, decompose_vars,
                coerce_vars, listen_vars, cactus_vars, stream_vars>>

\* ring = AudioRingBuffer(...), lines 311-316 and 354
RingInit ==
    /\ ring = [NoRing EXCEPT !.lock = "free"]
    /\ ValidateIdle
    /\ FingerprintIdle
    /\ HybridIdle
    /\ DecomposeIdle
    /\ CoerceIdle
    /\ ListenIdle
    /\ CactusIdle
    /\ StreamIdle

\* lines 318-320: push is called with a chunk of the frames that arrived
PushCalled ==
    /\ ring.p_pc \in {"idle", "returned"}
    /\ ring.pushes < MaxPushes
    /\ \E n \in 1..MaxChunk :
           ring' = [ring EXCEPT
                        !.mono = FramesFrom(ring.pushed + 1, ring.pushed + n),
                        !.old = <<>>,
                        !.pushed = @ + n,
                        !.pushes = @ + 1,
                        !.p_pc = "acquire"]
    /\ RingUnchanged

\* line 321: with self.lock
PushAcquire ==
    /\ ring.p_pc = "acquire"
    /\ ring.lock = "free"
    /\ ring' = [ring EXCEPT !.lock = "push", !.p_pc = "append"]
    /\ RingUnchanged

\* line 322
PushAppend ==
    /\ ring.p_pc = "append"
    /\ ring' = [ring EXCEPT !.buf = Append(@, ring.mono), !.p_pc = "count"]
    /\ RingUnchanged

\* line 323
PushCount ==
    /\ ring.p_pc = "count"
    /\ ring' = [ring EXCEPT !.n_frames = @ + Len(ring.mono), !.p_pc = "trim"]
    /\ RingUnchanged

\* the test of the while of line 325
MustTrim == ring.n_frames > max_frames /\ ring.buf # <<>>

\* lines 325-326
PushPopleft ==
    /\ ring.p_pc = "trim"
    /\ MustTrim
    /\ ring' = [ring EXCEPT !.old = Head(ring.buf), !.buf = Tail(@),
                            !.p_pc = "uncount"]
    /\ RingUnchanged

\* line 327
PushUncount ==
    /\ ring.p_pc = "uncount"
    /\ ring' = [ring EXCEPT !.n_frames = @ - Len(ring.old), !.p_pc = "trim"]
    /\ RingUnchanged

\* the while ends, the lock is released and push returns
PushReturn ==
    /\ ring.p_pc = "trim"
    /\ ~MustTrim
    /\ ring' = [ring EXCEPT !.lock = "free", !.p_pc = "returned"]
    /\ RingUnchanged

\* lines 329-330: snapshot_last(seconds) is called, need = int(seconds * sr)
SnapshotCalled ==
    /\ ring.s_pc \in {"idle", "returned"}
    /\ \E need \in 0..MaxNeed :
           ring' = [ring EXCEPT !.need = need, !.parts = <<>>, !.data = <<>>,
                                !.out = <<>>, !.s_pc = "acquire"]
    /\ RingUnchanged

\* line 331: with self.lock
SnapshotAcquire ==
    /\ ring.s_pc = "acquire"
    /\ ring.lock = "free"
    /\ ring' = [ring EXCEPT !.lock = "snapshot", !.s_pc = "test"]
    /\ RingUnchanged

\* lines 332-333: nothing held, an empty array is returned
SnapshotEmpty ==
    /\ ring.s_pc = "test"
    /\ ring.n_frames = 0
    /\ ring' = [ring EXCEPT !.out = <<>>, !.lock = "free",
                            !.s_pc = "returned"]
    /\ RingUnchanged

\* line 334 and the end of the with block
SnapshotCopy ==
    /\ ring.s_pc = "test"
    /\ ring.n_frames # 0
    /\ ring' = [ring EXCEPT !.parts = ring.buf, !.lock = "free",
                            !.s_pc = "concatenate"]
    /\ RingUnchanged

\* line 335; parts is not empty here
SnapshotConcatenate ==
    /\ ring.s_pc = "concatenate"
    /\ ring' = [ring EXCEPT !.data = Concatenate(ring.parts), !.s_pc = "slice"]
    /\ RingUnchanged

\* lines 336-338
SnapshotReturn ==
    /\ ring.s_pc = "slice"
    /\ ring' = [ring EXCEPT
                    !.out = IF Len(ring.data) <= ring.need THEN ring.data
                            ELSE LastOf(ring.data, ring.need),
                    !.s_pc = "returned"]
    /\ RingUnchanged

RingNext ==
    \/ PushCalled
    \/ PushAcquire
    \/ PushAppend
    \/ PushCount
    \/ PushPopleft
    \/ PushUncount
    \/ PushReturn
    \/ SnapshotCalled
    \/ SnapshotAcquire
    \/ SnapshotEmpty
    \/ SnapshotCopy
    \/ SnapshotConcatenate
    \/ SnapshotReturn

SpecRing == RingInit /\ [][RingNext]_vars

\* ------------------------------------------------------------------------
\* Properties of _validate
\* ------------------------------------------------------------------------

\* the request declares a tool of this name
Declared(name) == \E t \in 1..Len(tools) : tools[t].name = name

\* the call has no argument under some required parameter of its tool
LacksRequired(call) ==
    \E t \in 1..Len(tools) :
        /\ tools[t].name = call.name
        /\ \E f \in 1..Len(tools[t].required) :
               \A a \in 1..Len(call.arguments) :
                   call.arguments[a][1] # tools[t].required[f]

\* the call names no declared tool or lacks a required parameter
Offending(call) == ~Declared(call.name) \/ LacksRequired(call)

\* the declared type of parameter k of the tool called name, "" if undeclared
DeclaredType(name, k) ==
    LET hits == {<<t, q>> \in (1..Len(tools)) \X (1..3) :
                    /\ tools[t].name = name
                    /\ q <= Len(tools[t].properties)
                    /\ tools[t].properties[q][1] = k}
    IN  IF hits = {} THEN ""
        ELSE LET h == CHOOSE x \in hits : TRUE
             IN  tools[h[1]].properties[h[2]][2]

\* the value is a number, or a string spelling a number, within
\* [RangeLow, RangeHigh]
DenotesInRange(v) ==
    CASE v.t \in {"int", "float", "bool"} -> v.n >= RangeLow /\ v.n <= RangeHigh
      [] v.t = "str" ->
            /\ ParseFloat(v.s).ok
            /\ ParseFloat(v.s).v.t = "float"
            /\ ParseFloat(v.s).v.n >= RangeLow
            /\ ParseFloat(v.s).v.n <= RangeHigh
      [] OTHER -> FALSE

\* every integer- or number-declared argument of the call is within range
NumericArgsInRange(call) ==
    \A a \in 1..Len(call.arguments) :
        DeclaredType(call.name, call.arguments[a][1]) \in {"integer", "number"}
            => DenotesInRange(call.arguments[a][2])

\* C5: _validate returns is_valid = false whenever calls is empty, or some
\* call names an undeclared tool, or some call lacks a required parameter of
\* its tool, however many other calls of the batch are valid.
C5_OffendingCallRejectsBatch ==
    v_pc = "done" =>
        ( (v_calls = <<>> \/ \E i \in 1..Len(v_calls) : Offending(v_calls[i]))
            => ~v_out.is_valid )

\* a rejected batch of two calls, one offending, the other valid on its own
C5_Witness ==
    /\ v_pc = "done"
    /\ Len(v_calls) = 2
    /\ Offending(v_calls[2])
    /\ _validate(<<v_calls[1]>>, tools).is_valid
    /\ ~v_out.is_valid

\* C6: a non-empty call list whose calls all name a declared tool, have every
\* required parameter and have every integer/number-declared argument within
\* [-1000, 1000000] validates, and the corrected list has the same length,
\* the same order and the same tool names.
C6_ConformingBatchAccepted ==
    v_pc = "done" =>
        ( ( /\ v_calls # <<>>
            /\ \A i \in 1..Len(v_calls) :
                   ~Offending(v_calls[i]) /\ NumericArgsInRange(v_calls[i]) )
          => /\ v_out.is_valid
             /\ Len(v_out.corrected) = Len(v_calls)
             /\ \A i \in 1..Len(v_calls) :
                    v_out.corrected[i].name = v_calls[i].name )

\* an accepted batch of two different tools, one argument on a range bound
\* and one argument rewritten by coercion
C6_Witness ==
    /\ v_pc = "done"
    /\ v_out.is_valid
    /\ Len(v_calls) = 2
    /\ v_calls[1].name # v_calls[2].name
    /\ \A i \in 1..2 : ~Offending(v_calls[i]) /\ NumericArgsInRange(v_calls[i])
    /\ v_calls[1].arguments = << <<hour, IntV(RangeHigh)>> >>
    /\ v_out.corrected[2] # v_calls[2]

\* C7: an integer- or number-declared argument whose coerced value lies
\* outside [-1000, 1000000] makes _validate reject the batch, so that in
\* every validated output every numeric value of such a parameter lies in
\* [-1000, 1000000].
C7_ValidatedNumbersInRange ==
    (v_pc = "done" /\ v_out.is_valid) =>
        \A i \in 1..Len(v_out.corrected) :
            \A a \in 1..Len(v_out.corrected[i].arguments) :
                LET k == v_out.corrected[i].arguments[a][1]
                    v == v_out.corrected[i].arguments[a][2]
                IN  ( /\ DeclaredType(v_out.corrected[i].name, k)
                             \in {"integer", "number"}
                      /\ (IsIntInstance(v) \/ IsFloat(v)) )
                    => ( /\ v.t \in {"int", "float", "bool"}
                         /\ v.n >= RangeLow
                         /\ v.n <= RangeHigh )

\* ------------------------------------------------------------------------
\* Properties of _fingerprint
\* ------------------------------------------------------------------------

\* the items of a dict as a set: two dicts with the same items in any order
ItemSet(arguments) == {arguments[i] : i \in 1..Len(arguments)}

\* the items with every value replaced by its str()
StrItemSet(arguments) ==
    {<<arguments[i][1], Str(arguments[i][2])>> : i \in 1..Len(arguments)}

Bijections(n) == {p \in [1..n -> 1..n] : \A i, j \in 1..n : p[i] = p[j] => i = j}

\* a and b hold the same calls up to the order of the calls and the order of
\* the arguments inside a call: the same multiset of (name, argument-set)
SameCallMultiset(a, b) ==
    /\ Len(a) = Len(b)
    /\ \E p \in Bijections(Len(a)) :
           \A i \in 1..Len(a) :
               /\ a[i].name = b[p[i]].name
               /\ Len(a[i].arguments) = Len(b[p[i]].arguments)
               /\ ItemSet(a[i].arguments) = ItemSet(b[p[i]].arguments)

\* the same multiset of (name, set of (key, str(value)))
SameStrCallMultiset(a, b) ==
    /\ Len(a) = Len(b)
    /\ \E p \in Bijections(Len(a)) :
           \A i \in 1..Len(a) :
               /\ a[i].name = b[p[i]].name
               /\ Len(a[i].arguments) = Len(b[p[i]].arguments)
               /\ StrItemSet(a[i].arguments) = StrItemSet(b[p[i]].arguments)

\* C8: two call lists that differ only in the order of the calls or in the
\* order of the arguments inside a call have equal fingerprints.
C8_FingerprintOrderIndependent ==
    (f_pc = "done" /\ SameCallMultiset(f_a, f_b)) => f_key_a = f_key_b

\* two lists of two different calls, in opposite call order and with the
\* arguments of one call in opposite order, fingerprinted alike
C8_Witness ==
    /\ f_pc = "done"
    /\ Len(f_a) = 2
    /\ Len(f_b) = 2
    /\ f_a[1].name # f_a[2].name
    /\ f_a[1].name = f_b[2].name
    /\ f_a[1].arguments # f_b[2].arguments
    /\ SameCallMultiset(f_a, f_b)
    /\ f_key_a = f_key_b

\* C9 as stated: fingerprints are equal exactly when the two lists hold the
\* same multiset of (name, argument-set) pairs, so that calls whose argument
\* values differ (the integer 1, the string "1") never share a fingerprint.
C9_FingerprintEqualIffSameCalls ==
    f_pc = "done" => ((f_key_a = f_key_b) <=> SameCallMultiset(f_a, f_b))

\* C9 amended: fingerprints are equal exactly when the two lists hold the
\* same multiset of (name, set of (key, str(value))) pairs; duplicates are
\* counted, and values with the same str() share a fingerprint.
C9_FingerprintEqualIffSameStrCalls ==
    f_pc = "done" => ((f_key_a = f_key_b) <=> SameStrCallMultiset(f_a, f_b))

\* a call and the same call twice are told apart, and the integer 1 and the
\* string "1" under the same key are not
C9_Witness ==
    /\ f_pc = "done"
    /\ f_key_a = f_key_b
    /\ Len(f_a) = 2
    /\ Len(f_b) = 2
    /\ f_a[1] = f_a[2]
    /\ f_a[1] # f_b[1]
    /\ ~SameCallMultiset(f_a, f_b)
    /\ _fingerprint(<<f_a[1]>>) # f_key_a

\* ------------------------------------------------------------------------
\* Properties of the consensus vote
\* ------------------------------------------------------------------------

\* _self_consistent_with_first has voted: all n - 1 extra samples are drawn
\* and _on_device has returned
Voted == pc = "on_device_done" /\ od.k = N_SAMPLES - 1

\* the number of valid runs that share the fingerprint of run i
Agreeing(valid_runs, i) ==
    Cardinality({j \in 1..Len(valid_runs) :
        _fingerprint(valid_runs[j].calls) = _fingerprint(valid_runs[i].calls)})

\* the size of the largest group of valid runs sharing a fingerprint
LargestGroup(valid_runs) ==
    IF valid_runs = <<>> THEN 0
    ELSE Agreeing(valid_runs,
                  CHOOSE i \in 1..Len(valid_runs) :
                      \A j \in 1..Len(valid_runs) :
                          Agreeing(valid_runs, j) <= Agreeing(valid_runs, i))

CeilHalf(n) == (n + 1) \div 2

\* the returned calls are those of a run of the largest group
FromLargestGroup(valid_runs, calls) ==
    \E i \in 1..Len(valid_runs) :
        /\ Agreeing(valid_runs, i) = LargestGroup(valid_runs)
        /\ _fingerprint(valid_runs[i].calls) = _fingerprint(calls)

\* C10: the vote over the valid samples accepts the most frequent
\* fingerprint if and only if its count is at least max(2, ceil(n/2)) for the
\* n = 3 samples attempted; with no valid sample, or no group of that size,
\* the result is none.
C10_ConsensusNeedsMajority ==
    Voted =>
        /\ ~od_out.result.is_none
               <=> LargestGroup(od.valid_runs) >= Max(2, CeilHalf(N_SAMPLES))
        /\ ~od_out.result.is_none
               => FromLargestGroup(od.valid_runs, od_out.result.function_calls)

\* two of three valid samples agree, the third diverges, and the shared
\* calls are accepted
C10_Witness ==
    /\ Voted
    /\ Len(od.valid_runs) = N_SAMPLES
    /\ LargestGroup(od.valid_runs) = 2
    /\ ~od_out.result.is_none

\* run i is of the largest group and no run of its fingerprint has a higher
\* confidence
TopOfLargestGroup(valid_runs, i) ==
    /\ Agreeing(valid_runs, i) = LargestGroup(valid_runs)
    /\ \A j \in 1..Len(valid_runs) :
           _fingerprint(valid_runs[j].calls) = _fingerprint(valid_runs[i].calls)
               => valid_runs[j].confidence <= valid_runs[i].confidence

\* C11: when the vote accepts, the returned calls and the returned
\* confidence are those of one and the same valid run: a run of the winning
\* group whose confidence no other run of that group exceeds.  A run outside
\* the group is never returned, whatever its confidence.
C11_BestOfWinningGroup ==
    Voted /\ ~od_out.result.is_none =>
        \E i \in 1..Len(od.valid_runs) :
            /\ TopOfLargestGroup(od.valid_runs, i)
            /\ od_out.result.function_calls = od.valid_runs[i].calls
            /\ od_out.result.confidence = od.valid_runs[i].confidence

\* two timer samples of confidence 50 outvote an alarm sample of confidence
\* 99: the timer call is returned at confidence 50
C11_Witness ==
    /\ Voted
    /\ Len(od.valid_runs) = N_SAMPLES
    /\ \E i \in 1..Len(od.valid_runs) :
           /\ od.valid_runs[i].confidence = confidence_threshold
           /\ Agreeing(od.valid_runs, i) = 1
    /\ ~od_out.result.is_none
    /\ od_out.result.confidence < confidence_threshold

\* ------------------------------------------------------------------------
\* Properties of _on_device
\* ------------------------------------------------------------------------

Validates(sample) == _validate(sample.function_calls, tools).is_valid

Coerced(sample) == _validate(sample.function_calls, tools).corrected

\* the first sample of the running _on_device call is valid and as confident
\* as the threshold asks
FirstPasses ==
    /\ od.samples # <<>>
    /\ Validates(od.samples[1])
    /\ od.samples[1].confidence >= confidence_threshold

\* C12: if the first sample for a text validates with a confidence greater
\* than or equal to confidence_threshold, _on_device has returned that
\* sample's coerced calls, its confidence and its latency, and
\* generate_cactus was called exactly once for the text.
C12_FastPathAfterOneInference ==
    FirstPasses =>
        /\ pc = "on_device_done"
        /\ Len(od.samples) = 1
        /\ od_out.result = OnDeviceResult(Coerced(od.samples[1]),
                                          od.samples[1].confidence,
                                          od.samples[1].total_time_ms)

\* a first sample of confidence equal to the threshold whose "5" was coerced
\* to 5 is returned after one inference
C12_Witness ==
    /\ pc = "on_device_done"
    /\ Len(od.samples) = 1
    /\ od.samples[1].confidence = confidence_threshold
    /\ od.samples[1].function_calls = <<alarm_at_5>>
    /\ od_out.result.function_calls # <<alarm_at_5>>
    /\ ~od_out.result.is_none

\* what a sample adds to the consensus pool
PoolEntry(sample) ==
    IF Validates(sample)
    THEN <<Run(Coerced(sample), sample.confidence)>>
    ELSE <<>>

RECURSIVE Pool(_)
\* the valid samples, coerced, in the order they were drawn
Pool(samples) ==
    IF samples = <<>> THEN <<>>
    ELSE Pool(SubSeq(samples, 1, Len(samples) - 1))
             \o PoolEntry(samples[Len(samples)])

\* C13: when the first sample is not accepted by the fast path, _on_device
\* returns only after generate_cactus was called exactly three times for the
\* text, never two and never more than three times, whatever the first two
\* samples are; the pool of the vote holds the valid samples, each validated
\* on its own, and no invalid one.
C13_TwoMoreSamples ==
    /\ Len(od.samples) <= N_SAMPLES
    /\ (pc = "on_device_done" /\ ~FirstPasses) =>
           /\ Len(od.samples) = N_SAMPLES
           /\ od.valid_runs = Pool(od.samples)

\* the first two samples are valid and agree, below the threshold; a third
\* one, invalid, was drawn all the same and left out of the pool
C13_Witness ==
    /\ pc = "on_device_done"
    /\ Len(od.samples) = N_SAMPLES
    /\ Validates(od.samples[1])
    /\ od.samples[1].function_calls = od.samples[2].function_calls
    /\ ~Validates(od.samples[3])
    /\ Len(od.valid_runs) = 2
    /\ ~od_out.result.is_none

\* ------------------------------------------------------------------------
\* Properties of the exceptions of the collaborators
\* ------------------------------------------------------------------------

CloudHasRaised ==
    cloud_log # <<>> /\ cloud_log[Len(cloud_log)].outcome.raised

\* the sample holds no call and no confidence, as generate_cactus returns
\* it for text that is not JSON
Abstains(sample) == sample.function_calls = <<>> /\ sample.confidence = 0

\* C19 as stated: a raw output of the local inference that is not valid
\* JSON, or that does not conform otherwise, becomes a sample of no calls
\* and confidence 0 and raises nothing: generate_hybrid is not left by an
\* exception unless generate_cloud raised, and such a sample is neither
\* accepted by the fast path nor put into the pool of the vote.
C19_NonConformingOutputAbstains ==
    /\ pc = "raised" => CloudHasRaised
    /\ \A i \in 1..Len(od.samples) :
           Abstains(od.samples[i]) =>
               /\ PoolEntry(od.samples[i]) = <<>>
               /\ Len(od.valid_runs) < Len(od.samples)
               /\ pc = "on_device_done" => Len(od.samples) = N_SAMPLES

\* C20: when generate_cloud raises, generate_hybrid is left by the
\* exception: no result is returned, generate_cloud is not called a second
\* time, and no step of the request follows, no generate_cactus call either.
C20_CloudErrorPropagates ==
    /\ [](CloudHasRaised =>
              /\ pc = "raised"
              /\ result = NoHybridResult
              /\ Len(cloud_log) = 1)
    /\ [][~CloudHasRaised]_vars

\* generate_cloud raised after the first part of a text had resolved and
\* the second had failed
C20_Witness ==
    /\ CloudHasRaised
    /\ pc = "raised"
    /\ top.all_calls # <<>>
    /\ ~top.success
    /\ n_local >= 2 * N_SAMPLES

\* ------------------------------------------------------------------------
\* Properties of generate_hybrid
\* ------------------------------------------------------------------------

HasReturned == pc = "returned"

\* whole-message resolution has failed and the latest user text gives no
\* second part, or a part of the request has failed to resolve
MustFallBack ==
    \/ pc = "on_device_done" /\ frames = <<>> /\ od_out.result.is_none /\ ~Splits
    \/ pc = "resolve_done" /\ frames = <<>> /\ res_out.is_none

\* the latency the remote call of the request reported
CloudLatency ==
    IF cloud_log = <<>> THEN 0
    ELSE cloud_log[Len(cloud_log)].outcome.total_time_ms

\* C14: total_time_ms of a returned result is the sum of the latencies that
\* every generate_cactus call of the request reported, the calls for
\* discarded samples and for failed or abandoned parts included, plus the
\* latency of the generate_cloud call when there was one.
C14_TotalTimeSumsEveryAttempt ==
    HasReturned => result.total_time_ms = local_ms + CloudLatency

\* a cloud result for the request whose first clause splits again: the
\* whole, the first clause and its two parts were tried, the second part
\* failed, and the time of all twelve inferences is in the total
C14_Witness ==
    /\ HasReturned
    /\ result.source = "cloud (fallback)"
    /\ messages = <<Message("user", nested_clauses)>>
    /\ top.all_calls = <<>>
    /\ n_local = 4 * N_SAMPLES
    /\ local_ms > N_SAMPLES
    /\ result.total_time_ms = local_ms + CloudLatency

RECURSIVE InClauseOrder(_, _)
\* the contents of log are the clauses of parts from first to last, a clause
\* that splits again being replaced, in its place, by its own clauses in
\* their order
InClauseOrder(log, parts) ==
    IF parts = <<>> THEN log = <<>>
    ELSE \/ /\ log # <<>>
            /\ log[1].content = parts[1]
            /\ InClauseOrder(Tail(log), Tail(parts))
         \/ /\ Len(_decompose(parts[1])) > 1
            /\ \E k \in 1..Len(log) :
                   /\ InClauseOrder(SubSeq(log, 1, k), _decompose(parts[1]))
                   /\ InClauseOrder(SubSeq(log, k + 1, Len(log)), Tail(parts))

RECURSIVE LoggedCalls(_)
\* the calls of the log entries, concatenated from first to last
LoggedCalls(log) ==
    IF log = <<>> THEN <<>>
    ELSE log[1].calls \o LoggedCalls(Tail(log))

\* every clause of the latest user text was resolved by _on_device, as it is
\* or clause by clause
EveryPartResolved ==
    /\ Splits
    /\ InClauseOrder(resolved_log,
                     _decompose(user_msgs[Len(user_msgs)].content))

\* C15: a request whose whole message failed returns "on-device" exactly
\* when every part of its latest user text resolved, and function_calls is
\* then the calls of the parts concatenated in the order of the clauses in
\* the text, the calls of a nested part in its place.
C15_MergedInClauseOrder ==
    (HasReturned /\ top.sub_contents # <<>>) =>
        /\ result.source = "on-device" <=> EveryPartResolved
        /\ result.source = "on-device"
               => result.function_calls = LoggedCalls(resolved_log)

\* three clauses, one call each, an alarm for the first and timers for the
\* other two: three calls come back, the alarm first
C15_Witness ==
    /\ HasReturned
    /\ result.source = "on-device"
    /\ messages = <<Message("user", three_clauses)>>
    /\ Len(resolved_log) = 3
    /\ \A i \in 1..3 : Len(resolved_log[i].calls) = 1
    /\ Len(result.function_calls) = 3
    /\ result.function_calls[1].name = set_alarm
    /\ result.function_calls[2].name = set_timer
    /\ result.function_calls[3].name = set_timer

\* the number of decompositions the content of the innermost _resolve call
\* is the product of: the split by generate_hybrid, then one more for every
\* enclosing _resolve call
Decompositions == Len(frames)

\* C16: the text a _resolve call works on is the product of at most two
\* nested decompositions, the split of the latest user text by
\* generate_hybrid counted as the first; a clause that is the product of two
\* is tried on-device and is never decomposed again.
C16_TwoNestedDecompositions ==
    /\ Decompositions <= 2
    /\ Decompositions = 2 =>
           /\ Innermost.parts = <<>>
           /\ pc \in {"first_sample", "samples", "on_device_done", "raised"}

\* a clause of a clause of the request has failed on-device and is about to
\* be given up, not split
C16_Witness ==
    /\ Decompositions = 2
    /\ pc = "on_device_done"
    /\ od_out.result.is_none
    /\ Len(od.samples) = N_SAMPLES
    /\ Len(_decompose(Innermost.content)) = 1

\* the largest member of a non-empty set of numbers
SetMax(S) == CHOOSE x \in S : \A y \in S : y <= x

\* the numbers of clauses the splits of a request can give: that of the
\* latest user text, and that of each of its parts
ClauseCounts(parts) ==
    {Len(parts)} \cup {Len(_decompose(parts[i])) : i \in 1..Len(parts)}

\* the clauses of the latest user text of a request; none without a user
\* message
TopClauses(msgs) ==
    IF SelectSeq(msgs, IsUser) = <<>> THEN <<>>
    ELSE _decompose(SelectSeq(msgs, IsUser)[Len(SelectSeq(msgs, IsUser))].content)

\* the maximum number of clauses per split of each request; 1 when the text
\* does not split, 0 without a user message
ClausesPerSplit == [msgs \in Requests |-> SetMax(ClauseCounts(TopClauses(msgs)))]

MaxClauses == ClausesPerSplit[messages]

\* three samples for the whole message, for each of at most m parts and for
\* each of at most m clauses of each part
InferenceBound(m) == N_SAMPLES * (1 + m + m * m)

Terminated ==
    \/ HasReturned /\ result.source \in {"on-device", "cloud (fallback)"}
    \/ pc = "raised"

\* C17: whatever generate_cactus and generate_cloud return, a call of
\* generate_hybrid in which no collaborator raises comes to return an
\* "on-device" or a "cloud (fallback)" result, and it never makes more
\* generate_cactus calls than 3 * (1 + m + m * m), m being the maximum
\* number of clauses per split of the request.
C17_TerminatesWithinBound ==
    /\ <>Terminated
    /\ [](n_local <= InferenceBound(MaxClauses))

\* the request whose first clause splits again has returned after the full
\* fifteen inferences: three for the whole text and for each of four clauses
C17_Witness ==
    /\ HasReturned
    /\ MaxClauses = 2
    /\ n_local = 5 * N_SAMPLES

\* the generate_cactus calls that cannot but precede a generate_cloud call:
\* three for the whole message and, when the latest user text splits, three
\* more for a part that failed
SamplesBeforeCloud == IF Splits THEN 2 * N_SAMPLES ELSE N_SAMPLES

\* C18: no generate_cactus call is made once generate_cloud has been called,
\* and generate_cloud is called only after the three samples for the whole
\* message have been drawn and, if the text splits, only after the parts
\* were tried and three samples for one of them were drawn.
C18_CloudCallComesLast ==
    [][ /\ cloud_log # <<>> => n_local' = n_local
        /\ cloud_log' # cloud_log => n_local >= SamplesBeforeCloud ]_vars

\* the cloud answered for a text that splits, after three samples for the
\* whole message and three for its first part, and nothing followed
C18_Witness ==
    /\ HasReturned
    /\ Len(cloud_log) = 1
    /\ Splits
    /\ top.all_calls = <<>>
    /\ n_local = 2 * N_SAMPLES

\* C1: generate_cloud is called at most once in a run; it is called, once,
\* exactly when whole-message resolution has failed and not every part
\* resolves (the text that cannot be split included), and the call receives
\* the caller's messages and tools, never a clause.
C1_OneCloudCallWithOriginalRequest ==
    [][ /\ Len(cloud_log') <= 1
        /\ \A c \in 1..Len(cloud_log') :
               /\ cloud_log'[c].messages = messages
               /\ cloud_log'[c].tools = tools
        /\ MustFallBack <=> Len(cloud_log') = Len(cloud_log) + 1 ]_vars

\* the system message and the user message went to the cloud together after
\* a part of the request had failed, the first part having resolved
C1_Witness ==
    /\ Len(cloud_log) = 1
    /\ Len(messages) > 1
    /\ cloud_log[1].messages = messages
    /\ ~top.success
    /\ top.all_calls # <<>>

\* C2: a returned result carries source "on-device" or "cloud (fallback)";
\* it is "on-device" exactly when generate_cloud was never called in the
\* request and "cloud (fallback)" exactly when it was, and nothing is
\* returned before one of the two is reached.
C2_SourceTellsWhetherCloudWasCalled ==
    /\ HasReturned =>
           /\ result.source \in {"on-device", "cloud (fallback)"}
           /\ result.source = "on-device" <=> cloud_log = <<>>
           /\ result.source = "cloud (fallback)" <=> Len(cloud_log) = 1
    /\ ~HasReturned => result = NoHybridResult

\* an on-device result merged from parts, and no cloud call
C2_Witness ==
    /\ HasReturned
    /\ result.source = "on-device"
    /\ ~result.has_confidence
    /\ cloud_log = <<>>

\* C3: an "on-device" result has a non-empty function_calls, each call
\* naming a declared tool and holding every required parameter of it,
\* whether the whole message was accepted or parts were merged at any depth.
C3_OnDeviceCallsAreValid ==
    HasReturned /\ result.source = "on-device" =>
        /\ result.function_calls # <<>>
        /\ \A c \in 1..Len(result.function_calls) :
               ~Offending(result.function_calls[c])

\* three calls merged from the request whose first clause splits again
C3_Witness ==
    /\ HasReturned
    /\ result.source = "on-device"
    /\ messages = <<Message("user", nested_clauses)>>
    /\ Len(result.function_calls) = 3

\* C4: a "cloud (fallback)" result holds exactly the function_calls that
\* generate_cloud returned, not validated, not coerced, and without any
\* call of a part that had resolved on-device.
C4_CloudCallsReturnedAsReceived ==
    HasReturned /\ result.source = "cloud (fallback)" =>
        /\ cloud_log # <<>>
        /\ result.function_calls = cloud_log[1].outcome.function_calls

\* the cloud answered with an undeclared tool after a part had resolved
\* on-device: the answer is returned as it is and the part's calls are not
C4_Witness ==
    /\ HasReturned
    /\ result.source = "cloud (fallback)"
    /\ top.all_calls # <<>>
    /\ result.function_calls = <<stocks_call, timer_1s>>

\* ------------------------------------------------------------------------
\* Properties of _decompose
\* ------------------------------------------------------------------------

WordCount(p) == Len(Words(p, 1))

\* the clauses of the message that are left after both splits and the
\* two-word filter
UsableClauses(message) ==
    AtLeastTwoWords(
        SecondarySplit(CleanParts(SplitComma(message, 1, 1)),
                       StripAll(SplitAnd(message, 1, 1))))

\* C21: _decompose returns a list of at least one clause; when it returns
\* more than one clause each of them has at least two whitespace-separated
\* words; when fewer than two usable clauses are left it returns the list
\* of the one message it was given, unmodified
C21_DecomposeUsableClausesOrWhole ==
    d_pc = "done" =>
        /\ Len(d_parts) >= 1
        /\ Len(d_parts) > 1 =>
               \A i \in 1..Len(d_parts) : WordCount(d_parts[i]) >= 2
        /\ Len(d_parts) = 1 => d_parts = <<d_message>>
        /\ Len(UsableClauses(d_message)) < 2 => d_parts = <<d_message>>

\* a message with a comma, one clause of which has a single word, comes back
\* whole
C21_Witness ==
    /\ d_pc = "done"
    /\ Len(CleanParts(SplitComma(d_message, 1, 1))) = 2
    /\ Len(UsableClauses(d_message)) = 1
    /\ d_parts = <<d_message>>

\* the word without a trailing possessive "'s"
WithoutPossessive(w) ==
    IF Len(w) >= 2 /\ SubSeq(w, Len(w) - 1, Len(w)) = <<"'", "s">>
    THEN SubSeq(w, 1, Len(w) - 2)
    ELSE w

\* the comma split leaves a single clause of the message
SingleCommaClause(message) == Len(CleanParts(SplitComma(message, 1, 1))) = 1

\* the first word of the clause, lower-cased and without its possessive, is
\* an action verb
FirstWordIsVerb(p) == WithoutPossessive(Lower(Words(p, 1)[1])) \in _VERBS

\* C22: the split at the bare " and " is attempted only when the comma
\* split leaves a single clause, and it is accepted only if every clause has
\* at least three words and the first word of every clause, lower-cased and
\* with a trailing possessive "'s" stripped, is in the set of action verbs;
\* otherwise the message is returned whole, as "tom and jerry" is
C22_SecondarySplitOnlyOfVerbClauses ==
    d_pc = "done" =>
        /\ ~SingleCommaClause(d_message) =>
               d_parts = PartsOrWhole(
                             AtLeastTwoWords(
                                 CleanParts(SplitComma(d_message, 1, 1))),
                             d_message)
        /\ (SingleCommaClause(d_message) /\ Len(d_parts) > 1) =>
               \A i \in 1..Len(d_parts) :
                   /\ WordCount(d_parts[i]) >= 3
                   /\ FirstWordIsVerb(d_parts[i])
        /\ d_message = tom \o <<" ", "a", "n", "d", " ">> \o jerry =>
               d_parts = <<d_message>>

comma_and == <<",", " ", "a", "n", "d", " ">>

comma == <<",", " ">>

\* the clauses joined by ", " and ", and " that make up the message, in
\* their order, none of them empty or with a comma or a leading "and"
IsPlainClause(c) ==
    /\ Strip(c) = c
    /\ c # <<>>
    /\ \A i \in 1..Len(c) : c[i] # ","
    /\ AndSpacesEndAnyCase(c, 1) = 0

PlainClauses == {c \in DecomposeClauses \cup {alarm_at_six, weather_in_paris} :
                    IsPlainClause(c) /\ WordCount(c) >= 2}

\* C23: the first split cuts the message at every ", and " and ", ", drops
\* a leading "and " of a clause and keeps the clauses in their order:
\* "Set an alarm for 6:00 AM, and check the weather in Paris" gives
\* ["Set an alarm for 6:00 AM", "check the weather in Paris"] and
\* "Play some jazz" gives ["Play some jazz"]
C23_PrimarySplitInOrder ==
    d_pc = "done" =>
        /\ \A a, b \in PlainClauses : \A x \in {comma, comma_and} :
               /\ d_message = a \o x \o b => d_parts = <<a, b>>
               /\ d_message = and_go_home \o x \o b =>
                      d_parts = <<SubSeq(and_go_home, 5, 11), b>>
               /\ \A y \in {comma, comma_and} : \A c \in PlainClauses :
                      d_message = a \o x \o b \o y \o c =>
                          d_parts = <<a, b, c>>
        /\ d_message = alarm_at_six \o comma_and \o weather_in_paris =>
               d_parts = <<alarm_at_six, weather_in_paris>>
        /\ d_message = play_some_jazz => d_parts = <<play_some_jazz>>

C23_Witness ==
    /\ d_pc = "done"
    /\ d_message = alarm_at_six \o comma_and \o weather_in_paris
    /\ d_parts = <<alarm_at_six, weather_in_paris>>

\* ------------------------------------------------------------------------
\* Properties of the parts
\* ------------------------------------------------------------------------

\* _on_device is running
OnDeviceRuns == pc \in {"first_sample", "samples"}

LatestUserText == user_msgs[Len(user_msgs)].content

\* the messages of the request that no user wrote, in their order, and then
\* one user message with the clause
ContextAndClause(clause) ==
    SelectSeq(messages, NotUser) \o <<[role |-> "user", content |-> clause]>>

\* C24: the text that is decomposed is the content of the latest user
\* message; every part, at every depth, is resolved with the non-user
\* messages of the request in their order followed by one user message
\* whose content is the part (the tools are the request's tools)
C24_PartsResolvedWithNonUserContext ==
    /\ top.sub_contents # <<>> =>
           /\ user_msgs # <<>>
           /\ top.sub_contents = DecomposeOf[LatestUserText]
    /\ frames # <<>> =>
           /\ frames[1].content = top.sub_contents[top.i]
           /\ \A d \in 2..Len(frames) :
                  /\ frames[d - 1].parts = DecomposeOf[frames[d - 1].content]
                  /\ frames[d].content = frames[d - 1].parts[frames[d - 1].i]
    /\ (frames # <<>> /\ OnDeviceRuns) =>
           od.msgs = ContextAndClause(Innermost.content)
    /\ (frames = <<>> /\ OnDeviceRuns) => od.msgs = messages

\* the later samples of the second part, in a request of two user messages
\* and a message no user wrote
C24_Witness ==
    /\ Len(frames) = 1
    /\ top.i = 2
    /\ pc = "samples"
    /\ Len(user_msgs) = 2
    /\ Len(SelectSeq(messages, NotUser)) = 1
    /\ od.msgs = ContextAndClause(top.sub_contents[2])

\* ------------------------------------------------------------------------
\* Properties of _coerce
\* ------------------------------------------------------------------------

\* the value is of the primitive type
MatchesType(v, type) ==
    CASE type = "integer" -> v.t = "int"
      [] type = "number"  -> v.t = "int" \/ IsFloat(v)
      [] type = "boolean" -> v.t = "bool"
      [] type = "string"  -> v.t = "str"
      [] type = "array"   -> v.t = "list"
      [] OTHER -> FALSE

\* a string that spells no value of the numeric type
SpellsNoNumber(v, type) ==
    /\ v.t = "str"
    /\ type \in {"integer", "number"}
    /\ type = "integer" => ~ParseInt(v.s).ok
    /\ type = "number" => ~ParseFloat(v.s).ok

\* every integer- or number-declared argument of the call is within range
\* or a string that spells no such number
NumericArgsInRangeOrUnparsed(call) ==
    \A a \in 1..Len(call.arguments) :
        DeclaredType(call.name, call.arguments[a][1]) \in {"integer", "number"}
            => \/ DenotesInRange(call.arguments[a][2])
               \/ SpellsNoNumber(call.arguments[a][2],
                                 DeclaredType(call.name, call.arguments[a][1]))

\* the argument as _validate returns it keeps its key and is of its declared
\* type, or unchanged where the type is numeric or the key undeclared
CoercedOrUnchanged(raw, out, type) ==
    /\ out[1] = raw[1]
    /\ type = "" => out[2] = raw[2]
    /\ type \in {"integer", "number"} =>
           \/ MatchesType(out[2], type)
           \/ out[2] = raw[2]
    /\ type \in {"string", "array", "boolean"} => MatchesType(out[2], type)
    /\ SpellsNoNumber(raw[2], type) => out[2] = raw[2]

\* C25: in a validated list every argument is of its declared primitive
\* type or unchanged: an integer- or number-declared value that does not
\* parse is unchanged and does not make the list invalid, a string-declared
\* value is a string, an array-declared value a list, a boolean-declared
\* value a boolean, and an undeclared argument is passed through unchanged
C25_CoercedToDeclaredTypeOrUnchanged ==
    v_pc = "done" =>
        /\ v_out.is_valid =>
               \A i \in 1..Len(v_calls) :
                   /\ Len(v_out.corrected[i].arguments)
                          = Len(v_calls[i].arguments)
                   /\ \A a \in 1..Len(v_calls[i].arguments) :
                          CoercedOrUnchanged(
                              v_calls[i].arguments[a],
                              v_out.corrected[i].arguments[a],
                              DeclaredType(v_calls[i].name,
                                           v_calls[i].arguments[a][1]))
        /\ ( /\ v_calls # <<>>
             /\ \A i \in 1..Len(v_calls) :
                    /\ ~Offending(v_calls[i])
                    /\ NumericArgsInRangeOrUnparsed(v_calls[i]) )
           => v_out.is_valid

\* a valid list of an alarm whose hour is a word, returned unchanged, and a
\* timer whose tags were no list
C25_Witness ==
    /\ v_pc = "done"
    /\ v_out.is_valid
    /\ Len(v_calls) = 2
    /\ v_calls[1].arguments = << <<hour, StrV(<<"a", "b", "c">>)>> >>
    /\ v_out.corrected[1] = v_calls[1]
    /\ v_calls[2].arguments = << <<tags, StrV(<<"n", "o">>)>> >>
    /\ v_out.corrected[2].arguments[1][2].t = "list"

TrueWords == {<<"t", "r", "u", "e">>, <<"y", "e", "s">>, <<"1">>}

\* the value is a number other than zero, or a list that is not empty
NonZeroOrNonEmpty(v) ==
    \/ v.t \in {"int", "float"} /\ v.n # 0
    \/ v.t \in {"nan", "inf", "ninf"}
    \/ v.t = "list" /\ v.l # <<>>

\* the value is a string that is not empty
NonEmptyString(v) == v.t = "str" /\ v.s # <<>>

\* C26 as stated: for the type boolean a boolean is passed through, the
\* strings "true", "yes" and "1" in any case give true, and every other raw
\* value gives its own truthiness: true for a non-empty string and a
\* non-zero number, false for the empty string and zero
C26_BooleanOtherwiseTruthiness ==
    (c_pc = "done" /\ c_type = "boolean") =>
        /\ c_value.t = "bool" => c_out = c_value
        /\ (c_value.t = "str" /\ Lower(c_value.s) \in TrueWords) =>
               c_out = BoolV(TRUE)
        /\ (c_value.t # "bool"
               /\ ~(c_value.t = "str" /\ Lower(c_value.s) \in TrueWords)) =>
               c_out = BoolV(NonZeroOrNonEmpty(c_value)
                                \/ NonEmptyString(c_value))

\* C26: for the type boolean a boolean is passed through, a string gives
\* true exactly when lower-cased it is "true", "yes" or "1", so that every
\* other string, empty or not, gives false, and every other value gives its
\* own truthiness: true for a non-zero number, false for zero
C26_BooleanOfStringOnlyTrueWords ==
    (c_pc = "done" /\ c_type = "boolean") =>
        /\ c_value.t = "bool" => c_out = c_value
        /\ c_value.t = "str" => c_out = BoolV(Lower(c_value.s) \in TrueWords)
        /\ c_value.t \notin {"bool", "str"} =>
               c_out = BoolV(NonZeroOrNonEmpty(c_value))

\* the string "false" coerced to the boolean false
C26_Witness ==
    /\ c_pc = "done"
    /\ c_type = "boolean"
    /\ c_value = StrV(<<"f", "a", "l", "s", "e">>)
    /\ c_out = BoolV(FALSE)

\* ------------------------------------------------------------------------
\* Properties of the inputs of _validate
\* ------------------------------------------------------------------------

RECURSIVE SumOfLatencies(_)
SumOfLatencies(samples) ==
    IF samples = <<>> THEN 0
    ELSE samples[1].total_time_ms + SumOfLatencies(Tail(samples))

\* calls of generate_cactus and generate_cloud made so far
CollaboratorCalls == n_local + Len(cloud_log)

\* C28: the collaborators are called one at a time: no step of a request
\* makes more than one call, a local inference is made only inside the one
\* running _on_device and after the samples before it have returned, and
\* the time of the samples of a part is the sum of their latencies
C28_OneCollaboratorCallAtATime ==
    /\ [][ /\ CollaboratorCalls' <= CollaboratorCalls + 1
           /\ n_local' # n_local =>
                  /\ OnDeviceRuns
                  /\ pc' # "raised" =>
                         /\ Len(od'.samples) = od'.k + 1
                         /\ SubSeq(od'.samples, 1, od'.k) =
                                IF pc = "samples" THEN od.samples ELSE <<>>
           /\ Len(cloud_log') # Len(cloud_log) => ~OnDeviceRuns ]_vars
    /\ [](pc = "samples" => od.spent_time = SumOfLatencies(od.samples))
    /\ [](pc = "on_device_done" /\ od_out.result.is_none =>
              od_out.time = SumOfLatencies(od.samples))

\* the three samples of a part have returned, each after some time
C28_Witness ==
    /\ pc = "samples"
    /\ frames # <<>>
    /\ Len(od.samples) = N_SAMPLES
    /\ \A i \in 1..N_SAMPLES : od.samples[i].total_time_ms > 0
    /\ od.spent_time = SumOfLatencies(od.samples)

\* ------------------------------------------------------------------------
\* Properties of the wake word gate
\* ------------------------------------------------------------------------

\* C29 as stated: a message is sent only for a transcript that holds the
\* wake word or that is handled no later than ARMED_SECONDS after the last
\* transcript that held it; before the first such transcript no message is
\* sent
C29_SentOnlyAfterWakePhrase ==
    /\ ~sent.is_none =>
           \/ sent.wake_phrase
           \/ /\ last_phrase > 0
              /\ now <= last_phrase + ARMED_SECONDS
    /\ last_phrase = 0 => sent.is_none

\* C29: a message is sent only for a transcript in which detect_wake_word
\* finds the wake word, one of WAKE_WORDS or a greeting followed by a word
\* similar to "cactus", or that is handled no later than ARMED_SECONDS
\* after the last transcript in which it was found; before the first such
\* transcript no message is sent
C29_SentOnlyAfterDetectedWake ==
    /\ ~sent.is_none =>
           \/ sent.heard_wake
           \/ /\ last_wake > 0
              /\ now <= last_wake + ARMED_SECONDS
    /\ last_wake = 0 => sent.is_none

\* a message sent for a transcript without the wake word, in the last
\* second the gate is open
C29_Witness ==
    /\ ~sent.is_none
    /\ ~sent.heard_wake
    /\ last_wake > 0
    /\ now = last_wake + ARMED_SECONDS

\* ------------------------------------------------------------------------
\* Properties of the immediate fallback
\* ------------------------------------------------------------------------

\* the request has no user message, or _decompose gives fewer than two
\* clauses for the latest one
Undecomposable ==
    user_msgs = <<>> \/ Len(DecomposeOf[LatestUserText]) < 2

\* _on_device has returned None for the whole message
WholeMessageFailed ==
    pc = "on_device_done" /\ frames = <<>> /\ od_out.result.is_none

\* C30: when the whole message fails and the latest user text gives fewer
\* than two clauses, or there is no user message, generate_cloud is called
\* next and nothing is decomposed: there are exactly three generate_cactus
\* calls and one generate_cloud call, and total_time_ms is the latency of
\* the three local calls plus that of the remote call
C30_UndecomposableFallsBackAtOnce ==
    /\ [](Undecomposable =>
             /\ n_local <= N_SAMPLES
             /\ top.sub_contents = <<>>
             /\ frames = <<>>
             /\ WholeMessageFailed => n_local = N_SAMPLES /\ cloud_log = <<>>
             /\ cloud_log # <<>> => n_local = N_SAMPLES /\ Len(cloud_log) = 1
             /\ (HasReturned /\ cloud_log # <<>>) =>
                    /\ result.source = "cloud (fallback)"
                    /\ result.total_time_ms =
                           local_ms + cloud_log[1].outcome.total_time_ms)
    /\ [][ (Undecomposable /\ WholeMessageFailed) =>
               Len(cloud_log') = 1 ]_vars

\* a request of one system message answered by the cloud after three local
\* inferences that took time
C30_Witness ==
    /\ HasReturned
    /\ user_msgs = <<>>
    /\ messages # <<>>
    /\ result.source = "cloud (fallback)"
    /\ n_local = N_SAMPLES
    /\ Len(cloud_log) = 1
    /\ local_ms > 0
    /\ result.total_time_ms = local_ms + cloud_log[1].outcome.total_time_ms

\* ------------------------------------------------------------------------
\* Properties of the depth of _resolve
\* ------------------------------------------------------------------------

\* the depth each running _resolve was invoked with is the number of
\* _resolve calls around it
DepthIsNesting == \A k \in 1..Len(frames) : frames[k].depth = k - 1

\* a _resolve that has decomposed its content, and so recurses
Recurses(frame) == frame.parts # <<>>

\* the content of the innermost _resolve, had it been given at max_depth
AtMaxDepth == [Innermost EXCEPT !.depth = max_depth]

\* C31: _resolve is invoked with a depth of 0, 1 or 2 only; it decomposes
\* and recurses only where its depth is below max_depth, and at depth 2 a
\* content that failed on-device is not decomposed, whatever the content.
C31_ResolveDepthBounded ==
    /\ DepthIsNesting
    /\ \A k \in 1..Len(frames) :
           /\ frames[k].depth \in 0..max_depth
           /\ Recurses(frames[k]) => frames[k].depth < max_depth
    /\ frames # <<>> => ~PartSplits(AtMaxDepth)

\* a clause of a part has failed on-device and its _resolve, invoked at
\* depth 1, has returned failure to the _resolve of the part, which had
\* decomposed its content at depth 0
C31_Witness ==
    /\ pc = "resolve_done"
    /\ res_out.is_none
    /\ Len(frames) = 1
    /\ Innermost.depth = 0
    /\ Recurses(Innermost)
    /\ PartSplits(Innermost)
    /\ ~PartSplits(ResolveFrame(Innermost.content, max_depth))

\* ------------------------------------------------------------------------
\* Properties of the vote and the confidence threshold
\* ------------------------------------------------------------------------

\* the fingerprint of the coerced calls of a sample
SampleKey(sample) == _fingerprint(Coerced(sample))

\* samples i and j are both valid and share a fingerprint
ValidAndAgree(samples, i, j) ==
    /\ Validates(samples[i])
    /\ Validates(samples[j])
    /\ SampleKey(samples[i]) = SampleKey(samples[j])

\* _on_device has returned from the vote over three samples
VotedOverThree == pc = "on_device_done" /\ Len(od.samples) = N_SAMPLES

\* C32: whenever two of the three samples of a vote, the first one included,
\* are valid and share a fingerprint, _on_device returns a result with that
\* fingerprint, whatever the confidences of the samples are, 0 included.
C32_ConsensusIgnoresThreshold ==
    VotedOverThree =>
        \A i, j \in 1..N_SAMPLES :
            (i < j /\ ValidAndAgree(od.samples, i, j)) =>
                /\ ~od_out.result.is_none
                /\ _fingerprint(od_out.result.function_calls)
                       = SampleKey(od.samples[i])

\* the first sample, of confidence 0, missed the fast path; the second is
\* unparsable and the third repeats the first at confidence 0: the calls are
\* accepted at confidence 0
C32_Witness ==
    /\ VotedOverThree
    /\ od.samples[1].confidence = 0
    /\ od.samples[3].confidence = 0
    /\ ~Validates(od.samples[2])
    /\ ValidAndAgree(od.samples, 1, 3)
    /\ ~od_out.result.is_none
    /\ od_out.result.confidence = 0
    /\ od_out.result.confidence < confidence_threshold

\* ------------------------------------------------------------------------
\* Properties of a part that fails
\* ------------------------------------------------------------------------

\* a _resolve call has returned None to its caller
PartHasFailed == pc = "resolve_done" /\ res_out.is_none

\* the None is handed on by the enclosing _resolve, with the time of its own
\* attempts and of its parts added (line 733)
FailurePassedOn ==
    /\ frames # <<>>
    /\ frames' = Popped
    /\ pc' = "resolve_done"
    /\ res_out'.is_none
    /\ res_out'.time = Innermost.total_time + res_out.time

\* generate_hybrid leaves its loop and calls generate_cloud (lines 755-770)
LoopLeftForCloud ==
    /\ frames = <<>>
    /\ ~top'.success
    /\ top'.i = top.i
    /\ Len(cloud_log') = Len(cloud_log) + 1
    /\ pc' \in {"returned", "raised"}
    /\ pc' = "returned" =>
           /\ result'.source = "cloud (fallback)"
           /\ result'.total_time_ms
                  = local_ms + cloud_log'[Len(cloud_log')].outcome.total_time_ms

\* C33: once a _resolve call has returned None, for a part of the request
\* or for a clause of a part, no generate_cactus call follows: the failure
\* is passed up through each enclosing _resolve to generate_hybrid, which
\* calls generate_cloud, and no later sibling clause is tried; the time of
\* every inference made, those of the failing part included, is in the time
\* passed up and in total_time_ms of the result.
C33_FailedPartEndsResolution ==
    [][ PartHasFailed =>
            /\ n_local' = n_local
            /\ local_ms' = local_ms
            /\ FailurePassedOn \/ LoopLeftForCloud ]_vars

\* the first clause of a part failed, the second clause of that part and
\* the second part of the request were never tried: nine inferences, for
\* the whole message, the part and the clause, and their time is in the
\* total of the cloud result
C33_Witness ==
    /\ HasReturned
    /\ messages = <<Message("user", nested_clauses)>>
    /\ ~top.success
    /\ top.i = 1
    /\ top.i < Len(top.sub_contents)
    /\ resolved_log = <<>>
    /\ n_local = 3 * N_SAMPLES
    /\ local_ms >= 3 * N_SAMPLES
    /\ result.total_time_ms = local_ms + CloudLatency

\* ------------------------------------------------------------------------
\* Properties of _validate applied to what it returned
\* ------------------------------------------------------------------------

\* _validate has accepted the list it was called with
Accepted == v_pc = "done" /\ v_out.is_valid

\* C34: a list that _validate returned as valid is returned unchanged, and
\* as valid, when _validate is applied to it again.
C34_ValidateIdempotentOnAccepted ==
    Accepted =>
        _validate(v_out.corrected, tools)
            = [corrected |-> v_out.corrected, is_valid |-> TRUE]

\* two calls were accepted, " 7 " coerced to 7 in one of them and an
\* undeclared argument copied in the other, and the corrected list, which
\* is not the list given, validates to itself
C34_Witness ==
    /\ Accepted
    /\ Len(v_calls) = MaxCalls
    /\ v_out.corrected # v_calls
    /\ \E i \in 1..Len(v_calls) :
           /\ v_calls[i].arguments = << <<hour, StrV(<<" ", "7", " ">>)>> >>
           /\ v_out.corrected[i].arguments = << <<hour, IntV(7)>> >>
    /\ \E i \in 1..Len(v_calls) : HasKey(v_calls[i].arguments, extra)
    /\ _validate(v_out.corrected, tools).corrected = v_out.corrected

\* ------------------------------------------------------------------------
\* Properties of the handle of the local model
\* ------------------------------------------------------------------------

\* generate_cactus is not running: it has not started, has returned or was
\* left by an exception
BetweenInferences == cactus.pc \in {"init", "returned", "raised"}

\* C35: a generate_cactus call that has returned, its output parsed or
\* unparsable, has acquired the local model once and released it once; no
\* handle is live between two calls and never more than one is live.
C35_ModelAcquiredAndReleasedPerCall ==
    /\ Cardinality(cactus.live) <= 1
    /\ BetweenInferences => cactus.live = {}
    /\ cactus.pc = "returned" =>
           /\ cactus.acquired = 1
           /\ cactus.released = 1
    /\ cactus.acquired <= 1
    /\ cactus.released <= cactus.acquired

\* the second call returned the empty sample for an unparsable output after
\* it had acquired and released its own handle
C35_Witness ==
    /\ cactus.pc = "returned"
    /\ cactus.calls = 2
    /\ ~cactus.raw_str.json
    /\ cactus.out = Sample(<<>>, 0, 0)
    /\ cactus.model = 2
    /\ cactus.acquired = 1
    /\ cactus.released = 1
    /\ cactus.live = {}

\* ------------------------------------------------------------------------
\* Properties of the transcription jobs of the streaming demo
\* ------------------------------------------------------------------------

\* a job is submitted in the step
JobSubmitted == stream'.pending # stream.pending

\* C36: at most one transcription job is submitted and not finished at any
\* time; a job is submitted only when none is in flight, and a tick that
\* finds the job of pending unfinished submits nothing.
C36_OneJobInFlight ==
    /\ [](Cardinality(InFlight) <= 1)
    /\ [][ /\ JobSubmitted => InFlight = {}
           /\ Busy => ~JobSubmitted ]_vars

\* the second job is running, and the tick that found it unfinished has
\* submitted nothing
C36_Witness ==
    /\ stream.pc = "tick"
    /\ stream.last_tick = "busy"
    /\ stream.pending = 2
    /\ InFlight = {2}

\* C37: every transcription job that completes has its text handled, at
\* once or in a later turn of the loop.
C37_CompletedJobEventuallyHandled ==
    \A j \in 1..MaxJobs :
        [](j \in stream.done => <>(j \in stream.handled))

\* ------------------------------------------------------------------------
\* Properties of AudioRingBuffer
\* ------------------------------------------------------------------------

\* the frames held, oldest first
Held == Concatenate(ring.buf)

\* the frames of s are consecutive, in the order they arrived
InArrivalOrder(s) == \A i \in 1..(Len(s) - 1) : s[i + 1] = s[i] + 1

\* no push is between taking the lock and releasing it
NoPushUnderWay == ring.lock # "push"

\* n_frames counts the frames held and respects max_frames
CountedAndBounded ==
    /\ ring.n_frames = Len(Held)
    /\ ring.n_frames <= max_frames

\* the last push was of a chunk longer than max_frames
OversizeChunkPushed ==
    ring.p_pc = "returned" /\ Len(ring.mono) > max_frames

\* out is the last frames of s, as many as it has
LastFramesOf(out, s) ==
    /\ Len(out) <= Len(s)
    /\ out = SubSeq(s, Len(s) - Len(out) + 1, Len(s))

\* snapshot_last has returned
SnapshotReturned == ring.s_pc = "returned"

\* the part of the statement that is about push: whenever no push is under
\* way, and so whenever snapshot_last holds the lock, n_frames is the number
\* of frames held and at most max_frames; the frames held are the latest
\* that arrived, in order; a chunk longer than max_frames leaves nothing
RingKeptByPush ==
    /\ NoPushUnderWay => CountedAndBounded
    /\ InArrivalOrder(Held)
    /\ (ring.p_pc = "returned" /\ Held # <<>>)
           => Held[Len(Held)] = ring.pushed
    /\ OversizeChunkPushed => (ring.buf = <<>> /\ ring.n_frames = 0)

\* C38: after every completed push, whatever snapshot_last does meanwhile,
\* n_frames is the total length of the chunks held and at most max_frames,
\* a chunk longer than max_frames leaving the buffer empty; snapshot_last
\* returns at most int(seconds * sr) frames, the most recent ones of the
\* buffer it copied, in arrival order.
C38_RingBoundedAndSnapshotWindowed ==
    /\ RingKeptByPush
    /\ SnapshotReturned =>
           /\ Len(ring.out) <= ring.need
           /\ LastFramesOf(ring.out, Concatenate(ring.parts))
           /\ InArrivalOrder(ring.out)

====
